---- MODULE Spec2Model ----
(***************************************************************************)
(* Verification model of the DIPlib image core: dip::Image view            *)
(* derivation (image_manip.cpp) and copy/convert (image_copy.cpp).         *)
(*                                                                         *)
(* Arrays (dip::DimensionArray) are functions over 0..n-1, so that         *)
(* dimension indices are the ones the C++ code uses.  An image is a record *)
(*   dt      data type tag                    (dataType_)                  *)
(*   sizes   array of sizes                   (sizes_)                     *)
(*   strides array of strides, in samples     (strides_)                   *)
(*   telems  number of tensor elements        (tensor_.Elements())         *)
(*   tstride tensor stride, in samples        (tensorStride_)              *)
(*   origin  byte address of the first sample (origin_)                    *)
(*   seg     data segment id, 0 when raw      (dataBlock_)                 *)
(*   prot    protection flag                  (protect_)                   *)
(* The memory `mem` maps the id of every live data segment to its samples: *)
(* a function from the byte address of a sample to the sample's value.     *)
(* An operation that can throw is an operator yielding [img, err]: err is  *)
(* "" on success, and img is the image as the call leaves it (on a throw:  *)
(* the fields as they are at the throwing statement); an operation that    *)
(* touches samples also yields the memory as it leaves it.                 *)
(***************************************************************************)
EXTENDS Integers, Sequences, FiniteSets, TLC

VARIABLES img, orig, mem, before, before2, pmem, hist, used, nops, mask

\* the variables of the image views and their data
viewVars == <<img, orig, mem, before, before2, pmem, hist, used, nops, mask>>

VARIABLES picture, pictureBefore, pictureIn, se, calls

\* the variables of the morphological filters
morphVars == <<picture, pictureBefore, pictureIn, se, calls>>

VARIABLES lineIn, lineOut, buffers, work, taken, filtered, filterParam

\* the variables of the separable line filters and their threads
lineVars == <<lineIn, lineOut, buffers, work, taken, filtered, filterParam>>

VARIABLES seShape, seParams, route

\* the variables of the dispatch on the shape of the structuring element
dispatchVars == <<seShape, seParams, route>>

VARIABLES object, chain, chain8, converted, polygon4, polygon8

\* the variables of the chain codes and polygons
chainVars == <<object, chain, chain8, converted, polygon4, polygon8>>

VARIABLES cache, access_counter, dfts, spared

\* the variables of the cache of DFT plans
planVars == <<cache, access_counter, dfts, spared>>

VARIABLES data_, nTensor_, scale_, objectIndices, scanned

\* the variables of the measurement feature
measureVars == <<data_, nTensor_, scale_, objectIndices, scanned>>

vars == <<viewVars, morphVars, lineVars, dispatchVars, chainVars, planVars, measureVars>>

\* the variables that a call on an image view leaves alone, those that a
\* morphological filter leaves alone, those that a line filter leaves alone,
\* and those that the dispatch leaves alone
nonViewVars == <<morphVars, lineVars, dispatchVars, chainVars, planVars, measureVars>>

nonMorphVars == <<viewVars, lineVars, dispatchVars, chainVars, planVars, measureVars>>

nonLineVars == <<viewVars, morphVars, dispatchVars, chainVars, planVars, measureVars>>

nonDispatchVars == <<viewVars, morphVars, lineVars, chainVars, planVars, measureVars>>

nonPlanVars == <<viewVars, morphVars, lineVars, dispatchVars, chainVars, measureVars>>

\* the variables that the measurement feature leaves alone
nonMeasureVars == <<viewVars, morphVars, lineVars, dispatchVars, chainVars, planVars>>

\* the variables that the chain code functions leave alone
nonChainVars == <<viewVars, morphVars, lineVars, dispatchVars, planVars, measureVars>>

(* ------------------------------------------------------------------ *)
(* Bounds of the model                                                 *)
(* ------------------------------------------------------------------ *)
MaxSize == 3
MaxOps == 3
MaxLine == 4
MaxDims == 3
maxSize == 2
CounterMax == 7
MaxTurns == 4

(* ------------------------------------------------------------------ *)
(* dip::DimensionArray                                                 *)
(* ------------------------------------------------------------------ *)
ALen(a) == Cardinality(DOMAIN a)

AMake(n, v) == [i \in 0..(n - 1) |-> v]

AInsert(a, k, v) ==
  [i \in 0..ALen(a) |-> IF i < k THEN a[i] ELSE IF i = k THEN v ELSE a[i - 1]]

AErase(a, k) ==
  [i \in 0..(ALen(a) - 2) |-> IF i < k THEN a[i] ELSE a[i + 1]]

AResize(a, n, v) ==
  [i \in 0..(n - 1) |-> IF i < ALen(a) THEN a[i] ELSE v]

\* DimensionArray::permute: out[ ii ] = data[ order[ ii ]]
APermute(a, order) == [i \in 0..(ALen(order) - 1) |-> a[order[i]]]

\* all arrays of length n over the set S
Arrays(n, S) == [0..(n - 1) -> S]

RECURSIVE ASum(_, _)
ASum(a, n) == IF n = 0 THEN 0 ELSE a[n - 1] + ASum(a, n - 1)

RECURSIVE AProd(_, _)
AProd(a, n) == IF n = 0 THEN 1 ELSE a[n - 1] * AProd(a, n - 1)

\* DimensionArray::sorted_indices: insertion sort of the indices by value,
\* moving an index down only past strictly larger values (stable)
RECURSIVE InsertSorted(_, _, _, _)
InsertSorted(a, out, elem, jj) ==
  IF jj > 0 /\ a[out[jj - 1]] > a[elem]
  THEN InsertSorted(a, [out EXCEPT ![jj] = out[jj - 1]], elem, jj - 1)
  ELSE [out EXCEPT ![jj] = elem]

RECURSIVE SortFrom(_, _, _)
SortFrom(a, out, ii) ==
  IF ii >= ALen(a) THEN out
  ELSE SortFrom(a, InsertSorted(a, out, out[ii], ii), ii + 1)

SortedIndices(a) == SortFrom(a, [i \in 0..(ALen(a) - 1) |-> i], 1)

\* operator> on two arrays: same length and every element larger
ArrayGT(a, b) == ALen(a) = ALen(b) /\ \A i \in DOMAIN a : a[i] > b[i]

\* operator< on two arrays: same length and every element smaller
ArrayLT(a, b) == ALen(a) = ALen(b) /\ \A i \in DOMAIN a : a[i] < b[i]

\* C++ integer division truncates toward zero
CDiv(a, b) ==
  IF (a >= 0) = (b > 0) THEN (IF a >= 0 THEN a ELSE -a) \div (IF b > 0 THEN b ELSE -b)
  ELSE -((IF a >= 0 THEN a ELSE -a) \div (IF b > 0 THEN b ELSE -b))

\* C++ remainder has the sign of the dividend
CMod(a, b) == a - b * CDiv(a, b)

(* ------------------------------------------------------------------ *)
(* dip::DataType                                                       *)
(* ------------------------------------------------------------------ *)
SizeOf(dt) ==
  CASE dt \in {"BIN", "UINT8", "SINT8"} -> 1
    [] dt \in {"UINT16", "SINT16"} -> 2
    [] dt \in {"UINT32", "SINT32", "SFLOAT"} -> 4
    [] dt \in {"UINT64", "SINT64", "DFLOAT", "SCOMPLEX"} -> 8
    [] dt = "DCOMPLEX" -> 16

IsComplex(dt) == dt \in {"SCOMPLEX", "DCOMPLEX"}

(* ------------------------------------------------------------------ *)
(* dip::Image: queries                                                 *)
(* ------------------------------------------------------------------ *)
IsForged(im) == im.seg # 0

Ok(im) == [img |-> im, err |-> ""]

\* a default-constructed image: no dimensions, no data segment
RawImage ==
  [dt |-> "SFLOAT", sizes |-> <<>>, strides |-> <<>>, telems |-> 1, tstride |-> 1,
   origin |-> 0, seg |-> 0, prot |-> FALSE]

Throw(im, e) == [img |-> im, err |-> e]

\* Image::Pointer( dip::sint offset ): origin_ + offset * dataType_.SizeOf()
Pointer(im, offset) == im.origin + offset * SizeOf(im.dt)

\* Image::Offset( coords ): sum of coords[ ii ] * strides_[ ii ]
Offset(im, coords) ==
  ASum([i \in DOMAIN im.sizes |-> coords[i] * im.strides[i]], ALen(im.sizes))

\* normal strides: tensor dimension first, then the spatial dimensions in order
NormalStrides(sizes, telems) ==
  [i \in DOMAIN sizes |-> telems * AProd(sizes, i)]

\* a freshly forged image with normal strides
Forged(dt, sizes, telems, origin, seg) ==
  [dt |-> dt, sizes |-> sizes, strides |-> NormalStrides(sizes, telems),
   telems |-> telems, tstride |-> 1, origin |-> origin, seg |-> seg,
   prot |-> FALSE]

RECURSIVE AMax(_, _)
AMax(a, n) ==
  IF n = 0 THEN 0 ELSE IF a[n - 1] > AMax(a, n - 1) THEN a[n - 1] ELSE AMax(a, n - 1)

\* the coordinates of all pixels of an image
Coords(im) ==
  {c \in [DOMAIN im.sizes -> 0..(AMax(im.sizes, ALen(im.sizes)) - 1)] :
     \A i \in DOMAIN im.sizes : c[i] < im.sizes[i]}

\* byte addresses of the first byte of every sample the image addresses
Addresses(im) ==
  {Pointer(im, Offset(im, c) + t * im.tstride) : c \in Coords(im), t \in 0..(im.telems - 1)}

(* ------------------------------------------------------------------ *)
(* image_manip.cpp: reordering, mirroring, standard form               *)
(* ------------------------------------------------------------------ *)
\* mutant: the arrays are permuted in place, element by element, so that an
\* element is overwritten before it is read
RECURSIVE PermuteInPlace(_, _, _)
PermuteInPlace(a, order, ii) ==
  IF ii >= ALen(order) THEN AResize(a, ALen(order), 0)
  ELSE PermuteInPlace([a EXCEPT ![ii] = a[order[ii]]], order, ii + 1)

PermuteDimensionsInPlace(im, order) ==
  LET nd == ALen(im.sizes)
      keep == [d \in 0..(nd - 1) |-> \E ii \in DOMAIN order : order[ii] = d]
  IN  IF ~IsForged(im) THEN Throw(im, "IMAGE_NOT_FORGED")
      ELSE IF ALen(order) # nd THEN Throw(im, "ARRAY_PARAMETER_WRONG_LENGTH")
      ELSE IF \E d \in 0..(nd - 1) : ~keep[d] THEN Throw(im, "ILLEGAL_DIMENSION")
      ELSE Ok([im EXCEPT !.sizes = PermuteInPlace(im.sizes, order, 0),
                         !.strides = PermuteInPlace(im.strides, order, 0)])

PermuteDimensions(im, order) ==
  LET nd == ALen(im.sizes)
      newnd == ALen(order)
      keep == [d \in 0..(nd - 1) |-> \E ii \in DOMAIN order : order[ii] = d]
  IN  IF ~IsForged(im) THEN Throw(im, "IMAGE_NOT_FORGED")
      ELSE IF newnd > nd THEN Throw(im, "ARRAY_PARAMETER_WRONG_LENGTH")
      ELSE IF \E ii \in DOMAIN order : order[ii] >= nd THEN Throw(im, "ILLEGAL_DIMENSION")
      ELSE IF \E ii, jj \in DOMAIN order : ii < jj /\ order[ii] = order[jj]
        THEN Throw(im, "Cannot duplicate a dimension")
      ELSE IF \E d \in 0..(nd - 1) : ~keep[d] /\ im.sizes[d] > 1
        THEN Throw(im, "Cannot discard non-singleton dimension")
      ELSE Ok([im EXCEPT !.sizes = APermute(im.sizes, order),
                         !.strides = APermute(im.strides, order)])

SwapDimensions(im, dim1, dim2) ==
  LET nd == ALen(im.sizes)
  IN  IF ~IsForged(im) THEN Throw(im, "IMAGE_NOT_FORGED")
      ELSE IF dim1 >= nd \/ dim2 >= nd THEN Throw(im, "ILLEGAL_DIMENSION")
      ELSE IF dim1 # dim2
        THEN Ok([im EXCEPT !.sizes = [@ EXCEPT ![dim1] = im.sizes[dim2], ![dim2] = im.sizes[dim1]],
                           !.strides = [@ EXCEPT ![dim1] = im.strides[dim2], ![dim2] = im.strides[dim1]]])
      ELSE Ok(im)

\* mutant: the origin is not moved to the last pixel of the mirrored dimension
MirrorKeepOrigin(im, dimension) ==
  IF ~IsForged(im) THEN Throw(im, "IMAGE_NOT_FORGED")
  ELSE IF dimension >= ALen(im.sizes) THEN Throw(im, "ILLEGAL_DIMENSION")
  ELSE Ok([im EXCEPT !.strides = [@ EXCEPT ![dimension] = -im.strides[dimension]]])

Mirror(im, dimension) ==
  IF ~IsForged(im) THEN Throw(im, "IMAGE_NOT_FORGED")
  ELSE IF dimension >= ALen(im.sizes) THEN Throw(im, "ILLEGAL_DIMENSION")
  ELSE Ok([im EXCEPT !.origin = Pointer(im, (im.sizes[dimension] - 1) * im.strides[dimension]),
                     !.strides = [@ EXCEPT ![dimension] = -im.strides[dimension]]])

\* the static StandardizeStrides( strides, sizes ): un-mirrors and un-expands
\* the two arrays in place, and returns the order and the origin offset
RECURSIVE UnMirror(_, _, _, _)
UnMirror(strides, sizes, offset, ii) ==
  IF ii >= ALen(sizes) THEN [strides |-> strides, sizes |-> sizes, offset |-> offset]
  ELSE IF strides[ii] < 0
    THEN UnMirror([strides EXCEPT ![ii] = -strides[ii]], sizes,
                  offset + (sizes[ii] - 1) * strides[ii], ii + 1)
  ELSE IF strides[ii] = 0
    THEN UnMirror(strides, [sizes EXCEPT ![ii] = 1], offset, ii + 1)
  ELSE UnMirror(strides, sizes, offset, ii + 1)

\* the loop that removes the singleton dimensions from the sorted order
RECURSIVE DropSingletons(_, _, _, _)
DropSingletons(order, sizes, ii, jj) ==
  IF ii >= ALen(order) THEN AResize(order, jj, 0)
  ELSE IF sizes[order[ii]] > 1
    THEN DropSingletons([order EXCEPT ![jj] = order[ii]], sizes, ii + 1, jj + 1)
  ELSE DropSingletons(order, sizes, ii + 1, jj)

\* mutant: the offset of a mirrored dimension is added but its stride is
\* left negative
StandardizeStridesArraysKeepSign(strides, sizes) ==
  LET u == UnMirror(strides, sizes, 0, 0)
      order == DropSingletons(SortedIndices(strides), u.sizes, 0, 0)
  IN  [strides |-> strides, sizes |-> u.sizes, order |-> order, offset |-> u.offset]

StandardizeStridesArrays(strides, sizes) ==
  LET u == UnMirror(strides, sizes, 0, 0)
      order == DropSingletons(SortedIndices(u.strides), u.sizes, 0, 0)
  IN  [strides |-> u.strides, sizes |-> u.sizes, order |-> order, offset |-> u.offset]

StandardizeStrides(im) ==
  IF ~IsForged(im) THEN Throw(im, "IMAGE_NOT_FORGED")
  ELSE LET r == StandardizeStridesArrays(im.strides, im.sizes)
       IN  Ok([im EXCEPT !.telems = IF im.tstride = 0 THEN 1 ELSE im.telems,
                         !.origin = Pointer(im, r.offset),
                         !.sizes = APermute(r.sizes, r.order),
                         !.strides = APermute(r.strides, r.order)])

(* ------------------------------------------------------------------ *)
(* image_manip.cpp: cropping                                           *)
(* ------------------------------------------------------------------ *)
CropLocations == {"CENTER", "MIRROR_CENTER", "TOP_LEFT", "BOTTOM_RIGHT"}

Odd(n) == n % 2 = 1

\* mutant: the window is centred by halving the size difference, without the
\* correction for the parities of the two sizes
GetWindowOriginNoParity(imageSizes, windowSizes, cropLocation) ==
  [ii \in DOMAIN imageSizes |->
     LET diff == imageSizes[ii] - windowSizes[ii]
     IN  CASE cropLocation \in {"CENTER", "MIRROR_CENTER"} -> diff \div 2
           [] cropLocation = "TOP_LEFT" -> 0
           [] cropLocation = "BOTTOM_RIGHT" -> diff]

\* dip::uint arithmetic wraps around: 64 bits in the code, 16 in the model
UintRange == 2 ^ 16

GetWindowOrigin(imageSizes, windowSizes, cropLocation) ==
  [ii \in DOMAIN imageSizes |->
     LET diff == (imageSizes[ii] - windowSizes[ii]) % UintRange
     IN  CASE cropLocation = "CENTER" ->
                (diff \div 2) + (IF ~Odd(imageSizes[ii]) /\ Odd(windowSizes[ii]) THEN 1 ELSE 0)
           [] cropLocation = "MIRROR_CENTER" ->
                (diff \div 2) + (IF Odd(imageSizes[ii]) /\ ~Odd(windowSizes[ii]) THEN 1 ELSE 0)
           [] cropLocation = "TOP_LEFT" -> 0
           [] cropLocation = "BOTTOM_RIGHT" -> diff]

Crop(im, sizes, cropLocation) ==
  IF ~IsForged(im) THEN Throw(im, "IMAGE_NOT_FORGED")
  ELSE IF ALen(sizes) # ALen(im.sizes) THEN Throw(im, "ARRAY_PARAMETER_WRONG_LENGTH")
  ELSE IF ArrayGT(sizes, im.sizes) THEN Throw(im, "INDEX_OUT_OF_RANGE")
  ELSE LET origin == GetWindowOrigin(im.sizes, sizes, cropLocation)
       IN  \* Pointer( origin ) throws if origin is not a pixel of the image
           IF \E ii \in DOMAIN origin : origin[ii] >= im.sizes[ii]
           THEN Throw(im, "INDEX_OUT_OF_RANGE")
           ELSE Ok([im EXCEPT !.origin = Pointer(im, Offset(im, origin)),
                              !.sizes = sizes])

(* ------------------------------------------------------------------ *)
(* dip::Image: data segment, forging, stripping                        *)
(* ------------------------------------------------------------------ *)
\* the value of sample t of the pixel at coordinates c
Sample(m, im, c, t) == m[im.seg][Pointer(im, Offset(im, c) + t * im.tstride)]

\* the sample offsets an image with these sizes and strides addresses
SampleOffsets(im) ==
  {Offset(im, c) + t * im.tstride : c \in Coords(im), t \in 0..(im.telems - 1)}

\* a segment id that no live segment has
NewSegment(m) ==
  1 + (CHOOSE x \in DOMAIN m \cup {0} : \A y \in DOMAIN m \cup {0} : x >= y)

\* Forge: a new segment of sizes x tensor elements samples; strides that
\* are set and fill such a buffer exactly are kept, else they become normal.
\* The new samples are not initialized (-1 here; they are written before
\* any of the operations below reads them).
Forge(im, m) ==
  LET n == AProd(im.sizes, ALen(im.sizes)) * im.telems
      offs == SampleOffsets(im)
      lo == CHOOSE a \in offs : \A b \in offs : a <= b
      hi == CHOOSE a \in offs : \A b \in offs : a >= b
      keep == ALen(im.strides) = ALen(im.sizes) /\ Cardinality(offs) = n /\ hi - lo + 1 = n
      sg == NewSegment(m)
      new == IF keep
             THEN [im EXCEPT !.seg = sg, !.origin = (0 - lo) * SizeOf(im.dt)]
             ELSE [im EXCEPT !.seg = sg, !.origin = 0, !.tstride = 1,
                             !.strides = NormalStrides(im.sizes, im.telems)]
  IN  [img |-> new,
       mem |-> [x \in DOMAIN m \cup {sg} |->
                  IF x = sg THEN [a \in Addresses(new) |-> -1] ELSE m[x]]]

\* Strip: releases the reference to the data segment; refused when protected
Strip(im) ==
  IF IsForged(im) /\ im.prot THEN Throw(im, "Image is protected")
  ELSE Ok([im EXCEPT !.seg = 0, !.origin = 0])

\* CopyProperties: everything but the data segment and the protection flag
CopyProperties(im, s) ==
  [im EXCEPT !.dt = s.dt, !.sizes = s.sizes, !.strides = s.strides,
             !.telems = s.telems, !.tstride = s.tstride]

IsIdenticalView(a, b) ==
  /\ IsForged(a) /\ IsForged(b)
  /\ a.seg = b.seg /\ a.origin = b.origin /\ a.dt = b.dt
  /\ a.sizes = b.sizes /\ a.strides = b.strides
  /\ a.telems = b.telems /\ a.tstride = b.tstride

\* two views overlap when a sample of one shares a byte with a sample of the other
IsOverlappingView(a, b) ==
  /\ IsForged(a) /\ IsForged(b)
  /\ a.seg = b.seg
  /\ \E x \in Addresses(a), y \in Addresses(b) :
       x < y + SizeOf(b.dt) /\ y < x + SizeOf(a.dt)

\* CompareProperties( src, Option::CmpProp::AllSizes )
CompareAllSizes(a, b) == a.sizes = b.sizes /\ a.telems = b.telems

\* the segment is referred to by another image handle
IsShared(im, others) == IsForged(im) /\ \E h \in others : h.seg = im.seg

(* ------------------------------------------------------------------ *)
(* image_copy.cpp: sample conversion, copy, fill, convert              *)
(* ------------------------------------------------------------------ *)
Clamp(v, lo, hi) == IF v < lo THEN lo ELSE IF v > hi THEN hi ELSE v

\* clamp_cast: the value is clamped to the range of the destination type
Cast(v, dt) ==
  CASE dt = "BIN" -> IF v = 0 THEN 0 ELSE 1
    [] dt = "UINT8" -> Clamp(v, 0, 255)
    [] dt = "SINT8" -> Clamp(v, -128, 127)
    [] dt = "UINT16" -> Clamp(v, 0, 65535)
    [] dt = "SINT16" -> Clamp(v, -32768, 32767)
    [] OTHER -> v

\* the copy loop: every sample of src is cast into the sample of dest at the
\* same coordinates (both images have the same sizes and tensor elements)
CopyData(dest, s, m) ==
  LET idx == Coords(dest) \X (0..(dest.telems - 1))
      \* the pairs << address in dest, address in src >> of the loop
      moves == {<<Pointer(dest, Offset(dest, i[1]) + i[2] * dest.tstride),
                  Pointer(s, Offset(s, i[1]) + i[2] * s.tstride)>> : i \in idx}
      written == {mv[1] : mv \in moves}
      from == m[s.seg]
  IN  [sg \in DOMAIN m |->
         IF sg # dest.seg THEN m[sg]
         ELSE [a \in DOMAIN m[sg] |->
                 IF a \in written
                 THEN Cast(from[(CHOOSE mv \in moves : mv[1] = a)[2]], dest.dt)
                 ELSE m[sg][a]]]

\* mutant: the destination is reforged only when the sizes differ, not when
\* it overlaps the source
CopyNoOverlapCheck(dest, s, m) ==
  IF ~IsForged(s) THEN [img |-> dest, mem |-> m, err |-> "IMAGE_NOT_FORGED"]
  ELSE IF IsForged(dest) /\ IsIdenticalView(dest, s) THEN [img |-> dest, mem |-> m, err |-> ""]
  ELSE
    LET strip == IsForged(dest) /\ ~CompareAllSizes(dest, s)
        st == IF strip THEN Strip(dest) ELSE Ok(dest)
    IN  IF st.err # "" THEN [img |-> st.img, mem |-> m, err |-> st.err]
        ELSE LET f == IF ~IsForged(st.img) THEN Forge(CopyProperties(st.img, s), m)
                      ELSE [img |-> st.img, mem |-> m]
             IN  [img |-> f.img, mem |-> CopyData(f.img, s, f.mem), err |-> ""]

\* Image::Copy( Image const& src ), called on dest
Copy(dest, s, m) ==
  IF ~IsForged(s) THEN [img |-> dest, mem |-> m, err |-> "IMAGE_NOT_FORGED"]
  ELSE IF IsForged(dest) /\ IsIdenticalView(dest, s) THEN [img |-> dest, mem |-> m, err |-> ""]
  ELSE
    LET strip == IsForged(dest) /\ (~CompareAllSizes(dest, s) \/ IsOverlappingView(dest, s))
        st == IF strip THEN Strip(dest) ELSE Ok(dest)
    IN  IF st.err # "" THEN [img |-> st.img, mem |-> m, err |-> st.err]
        ELSE LET f == IF ~IsForged(st.img) THEN Forge(CopyProperties(st.img, s), m)
                      ELSE [img |-> st.img, mem |-> m]
             IN  [img |-> f.img, mem |-> CopyData(f.img, s, f.mem), err |-> ""]

\* Image::Fill: every sample the image addresses gets the value
Fill(im, value, m) ==
  LET filled == Addresses(im)
  IN  [sg \in DOMAIN m |->
         IF sg # im.seg THEN m[sg]
         ELSE [a \in DOMAIN m[sg] |-> IF a \in filled THEN Cast(value, im.dt) ELSE m[sg][a]]]

\* the in-place loop of Convert: every sample of the image is cast to dt
CastInPlace(im, dt, m) ==
  LET cast == Addresses(im)
  IN  [sg \in DOMAIN m |->
         IF sg # im.seg THEN m[sg]
         ELSE [a \in DOMAIN m[sg] |-> IF a \in cast THEN Cast(m[sg][a], dt) ELSE m[sg][a]]]

\* mutant: the conversion is made in place whenever the sample sizes are
\* equal, also in a segment that other images share
ConvertInPlaceShared(im, dt, m, shared) ==
  IF ~IsForged(im) THEN [img |-> im, mem |-> m, err |-> "IMAGE_NOT_FORGED"]
  ELSE IF dt = im.dt THEN [img |-> im, mem |-> m, err |-> ""]
  ELSE IF im.dt = "BIN" /\ dt \in {"UINT8", "SINT8"}
    THEN [img |-> [im EXCEPT !.dt = dt], mem |-> m, err |-> ""]
  ELSE IF SizeOf(dt) = SizeOf(im.dt)
    THEN [img |-> [im EXCEPT !.dt = dt], mem |-> CastInPlace(im, dt, m), err |-> ""]
  ELSE IF im.prot THEN [img |-> im, mem |-> m, err |-> "Image is protected"]
  ELSE LET f == Forge([im EXCEPT !.dt = dt, !.seg = 0, !.origin = 0, !.prot = FALSE,
                                 !.tstride = 1,
                                 !.strides = NormalStrides(im.sizes, im.telems)], m)
       IN  Copy(f.img, im, f.mem)

\* Image::Convert; `shared` is IsShared()
Convert(im, dt, m, shared) ==
  IF ~IsForged(im) THEN [img |-> im, mem |-> m, err |-> "IMAGE_NOT_FORGED"]
  ELSE IF dt = im.dt THEN [img |-> im, mem |-> m, err |-> ""]
  ELSE IF im.dt = "BIN" /\ dt \in {"UINT8", "SINT8"}
    THEN [img |-> [im EXCEPT !.dt = dt], mem |-> m, err |-> ""]
  ELSE IF ~shared /\ SizeOf(dt) = SizeOf(im.dt)
    THEN [img |-> [im EXCEPT !.dt = dt], mem |-> CastInPlace(im, dt, m), err |-> ""]
  ELSE IF im.prot THEN [img |-> im, mem |-> m, err |-> "Image is protected"]
  ELSE LET f == Forge([im EXCEPT !.dt = dt, !.seg = 0, !.origin = 0, !.prot = FALSE,
                                 !.tstride = 1,
                                 !.strides = NormalStrides(im.sizes, im.telems)], m)
       IN  Copy(f.img, im, f.mem)

\* Image::NumberOfPixels
NumberOfPixels(im) == AProd(im.sizes, ALen(im.sizes))

\* the coordinates of the pixel an image iterator is at after `index`
\* increments: the first dimension runs fastest
CoordsAt(im, index) ==
  [i \in DOMAIN im.sizes |-> (index \div AProd(im.sizes, i)) % im.sizes[i]]

\* Image::CheckIsMask( sizes, DONT_ALLOW, DO_THROW ): a scalar binary image
\* of exactly these sizes
CheckIsMask(maskIm, sizes) ==
  IF ~IsForged(maskIm) THEN "IMAGE_NOT_FORGED"
  ELSE IF maskIm.telems # 1 THEN "MASK_NOT_SCALAR"
  ELSE IF maskIm.dt # "BIN" THEN "MASK_NOT_BINARY"
  ELSE IF maskIm.sizes # sizes THEN "MASK_SIZES_DONT_MATCH"
  ELSE ""

\* dip::Count: the number of set pixels of a mask
Count(maskIm, m) == Cardinality({c \in Coords(maskIm) : Sample(m, maskIm, c, 0) # 0})

\* one pixel of src is copied (sample by sample) into a pixel of dest
CopyPixel(m, dest, cd, s, cs) ==
  LET target == [t \in 0..(dest.telems - 1) |->
                   Pointer(dest, Offset(dest, cd) + t * dest.tstride)]
  IN  [m EXCEPT ![dest.seg] =
         [a \in DOMAIN @ |->
            IF \E t \in DOMAIN target : target[t] = a
            THEN Cast(Sample(m, s, cs, CHOOSE t \in DOMAIN target : target[t] = a), dest.dt)
            ELSE @[a]]]

\* the loop of CopyTo: destIt runs over dest and destMask jointly, srcIt over
\* src; at a set mask pixel the loop throws if srcIt is exhausted, else it
\* copies the pixel and advances srcIt; after the loop it throws if srcIt
\* is not exhausted
RECURSIVE CopyToLoop(_, _, _, _, _, _)
CopyToLoop(s, dest, destMask, m, destIt, srcIt) ==
  IF destIt >= NumberOfPixels(dest)
  THEN [img |-> dest, mem |-> m,
        err |-> IF srcIt < NumberOfPixels(s) THEN "SIZES_DONT_MATCH" ELSE ""]
  ELSE IF Sample(m, destMask, CoordsAt(dest, destIt), 0) = 0
  THEN CopyToLoop(s, dest, destMask, m, destIt + 1, srcIt)
  ELSE IF srcIt >= NumberOfPixels(s)
  THEN [img |-> dest, mem |-> m, err |-> "SIZES_DONT_MATCH"]
  ELSE CopyToLoop(s, dest, destMask,
                  CopyPixel(m, dest, CoordsAt(dest, destIt), s, CoordsAt(s, srcIt)),
                  destIt + 1, srcIt + 1)

\* CopyTo( src, dest, destMask )
CopyTo(s, dest, destMask, m) ==
  IF ~IsForged(s) \/ ~IsForged(dest) THEN [img |-> dest, mem |-> m, err |-> "IMAGE_NOT_FORGED"]
  ELSE IF s.telems # dest.telems
    THEN [img |-> dest, mem |-> m, err |-> "NTENSORELEM_DONT_MATCH"]
  ELSE IF CheckIsMask(destMask, dest.sizes) # ""
    THEN [img |-> dest, mem |-> m, err |-> CheckIsMask(destMask, dest.sizes)]
  ELSE CopyToLoop(s, dest, destMask, m, 0, 0)

(* ------------------------------------------------------------------ *)
(* image_manip.cpp: padding                                            *)
(* ------------------------------------------------------------------ *)
\* mutant: the window of the padded image is always taken at the top left
PadTopLeft(im, sizes, value, cropLocation, m) ==
  IF ~IsForged(im) THEN [img |-> im, mem |-> m, err |-> "IMAGE_NOT_FORGED"]
  ELSE IF ALen(sizes) # ALen(im.sizes)
    THEN [img |-> im, mem |-> m, err |-> "ARRAY_PARAMETER_WRONG_LENGTH"]
  ELSE IF ArrayLT(sizes, im.sizes) THEN [img |-> im, mem |-> m, err |-> "INDEX_OUT_OF_RANGE"]
  ELSE LET f == Forge([im EXCEPT !.sizes = sizes, !.seg = 0, !.origin = 0, !.prot = FALSE], m)
           tmp == Crop(f.img, im.sizes, "TOP_LEFT")
           cp == Copy(tmp.img, im, Fill(f.img, value, f.mem))
       IN  IF tmp.err # "" THEN [img |-> im, mem |-> m, err |-> tmp.err]
           ELSE IF cp.err # "" THEN [img |-> im, mem |-> m, err |-> cp.err]
           ELSE [img |-> f.img, mem |-> cp.mem, err |-> ""]

\* Image::Pad: a new image of the given sizes, filled with `value`, with the
\* samples of `im` copied into the window that Cropped( im.sizes ) selects
Pad(im, sizes, value, cropLocation, m) ==
  IF ~IsForged(im) THEN [img |-> im, mem |-> m, err |-> "IMAGE_NOT_FORGED"]
  ELSE IF ALen(sizes) # ALen(im.sizes)
    THEN [img |-> im, mem |-> m, err |-> "ARRAY_PARAMETER_WRONG_LENGTH"]
  ELSE IF ArrayLT(sizes, im.sizes) THEN [img |-> im, mem |-> m, err |-> "INDEX_OUT_OF_RANGE"]
  ELSE LET f == Forge([im EXCEPT !.sizes = sizes, !.seg = 0, !.origin = 0, !.prot = FALSE], m)
           tmp == Crop(f.img, im.sizes, cropLocation)
           cp == Copy(tmp.img, im, Fill(f.img, value, f.mem))
       IN  IF tmp.err # "" THEN [img |-> im, mem |-> m, err |-> tmp.err]
           ELSE IF cp.err # "" THEN [img |-> im, mem |-> m, err |-> cp.err]
           ELSE [img |-> f.img, mem |-> cp.mem, err |-> ""]

(* ------------------------------------------------------------------ *)
(* image_manip.cpp: singleton dimensions                               *)
(* ------------------------------------------------------------------ *)
\* Squeeze( UnsignedArray& dims ): keeps the dimensions of size > 1, in order
RECURSIVE SqueezeLoop(_, _, _, _)
SqueezeLoop(sizes, strides, ii, jj) ==
  IF ii >= ALen(sizes)
  THEN [sizes |-> AResize(sizes, jj, 0), strides |-> AResize(strides, jj, 0)]
  ELSE IF sizes[ii] > 1
    THEN SqueezeLoop([sizes EXCEPT ![jj] = sizes[ii]], [strides EXCEPT ![jj] = strides[ii]],
                     ii + 1, jj + 1)
  ELSE SqueezeLoop(sizes, strides, ii + 1, jj)

Squeeze(im) ==
  IF ~IsForged(im) THEN Throw(im, "IMAGE_NOT_FORGED")
  ELSE LET r == SqueezeLoop(im.sizes, im.strides, 0, 0)
       IN  Ok([im EXCEPT !.sizes = r.sizes, !.strides = r.strides])

AddSingleton(im, dim) ==
  IF ~IsForged(im) THEN Throw(im, "IMAGE_NOT_FORGED")
  ELSE IF dim > ALen(im.sizes) THEN Throw(im, "INVALID_PARAMETER")
  ELSE Ok([im EXCEPT !.sizes = AInsert(im.sizes, dim, 1),
                     !.strides = AInsert(im.strides, dim, 0)])

ExpandDimensionality(im, dim) ==
  IF ~IsForged(im) THEN Throw(im, "IMAGE_NOT_FORGED")
  ELSE IF ALen(im.sizes) < dim
    THEN Ok([im EXCEPT !.sizes = AResize(im.sizes, dim, 1),
                       !.strides = AResize(im.strides, dim, 0)])
  ELSE Ok(im)

ExpandSingletonDimension(im, dim, sz) ==
  IF ~IsForged(im) THEN Throw(im, "IMAGE_NOT_FORGED")
  ELSE IF ALen(im.sizes) <= dim THEN Throw(im, "ILLEGAL_DIMENSION")
  ELSE IF im.sizes[dim] # 1 THEN Throw(im, "INVALID_PARAMETER")
  ELSE Ok([im EXCEPT !.sizes = [@ EXCEPT ![dim] = sz],
                     !.strides = [@ EXCEPT ![dim] = 0]])

\* mutant: an expanded tensor is not reset to a scalar
UnexpandSingletonDimensionsKeepTensor(im) ==
  IF ~IsForged(im) THEN Throw(im, "IMAGE_NOT_FORGED")
  ELSE Ok([im EXCEPT !.sizes = [ii \in DOMAIN im.sizes |->
                                  IF im.strides[ii] = 0 THEN 1 ELSE im.sizes[ii]]])

UnexpandSingletonDimensions(im) ==
  IF ~IsForged(im) THEN Throw(im, "IMAGE_NOT_FORGED")
  ELSE Ok([im EXCEPT !.telems = IF im.tstride = 0 THEN 1 ELSE im.telems,
                     !.sizes = [ii \in DOMAIN im.sizes |->
                                  IF im.strides[ii] = 0 THEN 1 ELSE im.sizes[ii]]])

ExpandSingletonTensor(im, sz) ==
  IF ~IsForged(im) THEN Throw(im, "IMAGE_NOT_FORGED")
  ELSE IF im.telems # 1 THEN Throw(im, "IMAGE_NOT_SCALAR")
  ELSE Ok([im EXCEPT !.telems = sz, !.tstride = 0])

(* ------------------------------------------------------------------ *)
(* image_manip.cpp: complex samples as a dimension, reinterpretation   *)
(* ------------------------------------------------------------------ *)
SplitComplex(im, dim) ==
  LET nd == ALen(im.sizes)
  IN  IF ~IsForged(im) THEN Throw(im, "IMAGE_NOT_FORGED")
      ELSE IF ~IsComplex(im.dt) THEN Throw(im, "DATA_TYPE_NOT_SUPPORTED")
      ELSE IF dim > nd THEN Throw(im, "INVALID_PARAMETER")
      ELSE Ok([im EXCEPT !.dt = IF im.dt = "SCOMPLEX" THEN "SFLOAT" ELSE "DFLOAT",
                         !.strides = AInsert([ii \in DOMAIN im.strides |-> im.strides[ii] * 2], dim, 1),
                         !.tstride = im.tstride * 2,
                         !.sizes = AInsert(im.sizes, dim, 2)])

\* the loop of MergeComplex runs ii over 0..nd-1 with nd the dimensionality
\* before the erase; the array it indexes then has nd-1 elements.  The
\* element at index nd-1 is not part of the array: the strides the image
\* reports are the nd-1 halved ones (as the test of lines 754-758 requires).
MergeComplexIndices(nd) == 0..(nd - 1)

\* mutant: the tensor stride is not halved back
MergeComplexKeepTensorStride(im, dim) ==
  LET nd == ALen(im.sizes)
  IN  IF ~IsForged(im) THEN Throw(im, "IMAGE_NOT_FORGED")
      ELSE IF IsComplex(im.dt) THEN Throw(im, "DATA_TYPE_NOT_SUPPORTED")
      ELSE IF dim >= nd THEN Throw(im, "INVALID_PARAMETER")
      ELSE IF im.sizes[dim] # 2 \/ im.strides[dim] # 1 THEN Throw(im, "SIZES_DONT_MATCH")
      ELSE LET erased == AErase(im.strides, dim)
           IN  Ok([im EXCEPT !.dt = IF im.dt = "SFLOAT" THEN "SCOMPLEX" ELSE "DCOMPLEX",
                             !.sizes = AErase(im.sizes, dim),
                             !.strides = [ii \in DOMAIN erased |-> CDiv(erased[ii], 2)]])

MergeComplex(im, dim) ==
  LET nd == ALen(im.sizes)
  IN  IF ~IsForged(im) THEN Throw(im, "IMAGE_NOT_FORGED")
      ELSE IF IsComplex(im.dt) THEN Throw(im, "DATA_TYPE_NOT_SUPPORTED")
      ELSE IF dim >= nd THEN Throw(im, "INVALID_PARAMETER")
      ELSE IF im.sizes[dim] # 2 \/ im.strides[dim] # 1 THEN Throw(im, "SIZES_DONT_MATCH")
      ELSE LET erased == AErase(im.strides, dim)
           IN  Ok([im EXCEPT !.dt = IF im.dt = "SFLOAT" THEN "SCOMPLEX" ELSE "DCOMPLEX",
                             !.sizes = AErase(im.sizes, dim),
                             !.strides = [ii \in DOMAIN erased |->
                                            IF ii \in MergeComplexIndices(nd)
                                            THEN CDiv(erased[ii], 2) ELSE erased[ii]],
                             !.tstride = CDiv(im.tstride, 2)])

\* the first dimension with size > 1 and stride 1, or nDims when there is none
RECURSIVE FindUnitStrideDim(_, _)
FindUnitStrideDim(im, dim) ==
  IF dim >= ALen(im.sizes) THEN ALen(im.sizes)
  ELSE IF im.sizes[dim] > 1 /\ im.strides[dim] = 1 THEN dim
  ELSE FindUnitStrideDim(im, dim + 1)

\* mutant: the size is divided before the strides are checked
ReinterpretCastCheckLate(im, dataType) ==
  IF ~IsForged(im) THEN Throw(im, "IMAGE_NOT_FORGED")
  ELSE IF dataType = im.dt THEN Ok(im)
  ELSE
    LET inSize == SizeOf(im.dt)
        outSize == SizeOf(dataType)
        nDims == ALen(im.sizes)
        dim == FindUnitStrideDim(im, 0)
    IN  IF inSize = outSize THEN Ok([im EXCEPT !.dt = dataType])
        ELSE IF inSize > outSize THEN
          LET ratio == inSize \div outSize
              im1 == IF dim = nDims
                     THEN [im EXCEPT !.sizes = AInsert(im.sizes, 0, 1),
                                     !.strides = AInsert(im.strides, 0, 1)]
                     ELSE im
              d == IF dim = nDims THEN 0 ELSE dim
          IN  Ok([im1 EXCEPT !.sizes = [@ EXCEPT ![d] = @ * ratio],
                             !.strides = [ii \in DOMAIN im1.strides |->
                                            IF ii # d THEN im1.strides[ii] * ratio
                                            ELSE im1.strides[ii]],
                             !.tstride = im1.tstride * ratio,
                             !.dt = dataType])
        ELSE
          LET ratio == outSize \div inSize
              im2 == IF dim = nDims THEN im
                     ELSE [im EXCEPT !.sizes = [@ EXCEPT ![dim] = @ \div ratio]]
          IN  IF dim = nDims THEN Throw(im, "Image not compatible with requested cast")
              ELSE IF im.sizes[dim] % ratio # 0
                THEN Throw(im, "Image not compatible with requested cast")
              ELSE IF \E ii \in DOMAIN im.strides : ii # dim /\ CMod(im.strides[ii], ratio) # 0
                THEN Throw(im2, "Image not compatible with requested cast")
              ELSE Ok([im2 EXCEPT !.strides = [ii \in DOMAIN im.strides |->
                                                 IF ii # dim THEN CDiv(im.strides[ii], ratio)
                                                 ELSE im.strides[ii]],
                                  !.tstride = CDiv(im.tstride, ratio),
                                  !.dt = dataType])

ReinterpretCast(im, dataType) ==
  IF ~IsForged(im) THEN Throw(im, "IMAGE_NOT_FORGED")
  ELSE IF dataType = im.dt THEN Ok(im)
  ELSE
    LET inSize == SizeOf(im.dt)
        outSize == SizeOf(dataType)
        nDims == ALen(im.sizes)
        dim == FindUnitStrideDim(im, 0)
    IN  IF inSize = outSize THEN Ok([im EXCEPT !.dt = dataType])
        ELSE IF inSize > outSize THEN
          LET ratio == inSize \div outSize
              \* no such dimension: a singleton is added in front, with stride 1
              im1 == IF dim = nDims
                     THEN [im EXCEPT !.sizes = AInsert(im.sizes, 0, 1),
                                     !.strides = AInsert(im.strides, 0, 1)]
                     ELSE im
              d == IF dim = nDims THEN 0 ELSE dim
          IN  Ok([im1 EXCEPT !.sizes = [@ EXCEPT ![d] = @ * ratio],
                             !.strides = [ii \in DOMAIN im1.strides |->
                                            IF ii # d THEN im1.strides[ii] * ratio
                                            ELSE im1.strides[ii]],
                             !.tstride = im1.tstride * ratio,
                             !.dt = dataType])
        ELSE
          LET ratio == outSize \div inSize
          IN  IF dim = nDims THEN Throw(im, "Image not compatible with requested cast")
              ELSE IF im.sizes[dim] % ratio # 0
                THEN Throw(im, "Image not compatible with requested cast")
              ELSE IF \E ii \in DOMAIN im.strides : ii # dim /\ CMod(im.strides[ii], ratio) # 0
                THEN Throw(im, "Image not compatible with requested cast")
              ELSE Ok([im EXCEPT !.sizes = [@ EXCEPT ![dim] = @ \div ratio],
                                 !.strides = [ii \in DOMAIN im.strides |->
                                                IF ii # dim THEN CDiv(im.strides[ii], ratio)
                                                ELSE im.strides[ii]],
                                 !.tstride = CDiv(im.tstride, ratio),
                                 !.dt = dataType])

\* a spatial dimension becomes the tensor dimension (rows x cols elements)
SpatialToTensor(im, dim, rows, cols) ==
  IF ~IsForged(im) THEN Throw(im, "IMAGE_NOT_FORGED")
  ELSE IF im.telems # 1 THEN Throw(im, "IMAGE_NOT_SCALAR")
  ELSE IF dim >= ALen(im.sizes) THEN Throw(im, "INVALID_PARAMETER")
  ELSE
    LET r == IF rows = 0 /\ cols = 0 THEN im.sizes[dim]
             ELSE IF rows = 0 THEN im.sizes[dim] \div cols
             ELSE rows
        c == IF rows = 0 /\ cols = 0 THEN 1
             ELSE IF rows = 0 THEN cols
             ELSE IF cols = 0 THEN im.sizes[dim] \div rows
             ELSE cols
    IN  IF im.sizes[dim] # r * c THEN Throw(im, "INVALID_PARAMETER")
        ELSE Ok([im EXCEPT !.telems = r * c,
                           !.tstride = im.strides[dim],
                           !.sizes = AErase(im.sizes, dim),
                           !.strides = AErase(im.strides, dim)])

(* ------------------------------------------------------------------ *)
(* morphology/basic.cpp: flat structuring elements, pixel-table filter *)
(*                                                                     *)
(* A 2-D scalar image is here a record [dt, sizes, pix]: pix maps the  *)
(* point <<x, y>> to its sample, for every point of the image          *)
(* (0 <= x < sizes[0], 0 <= y < sizes[1]) and for the points around it *)
(* that its data segment holds (the boundary extension).  A kernel is  *)
(* a record [sizes, pixels, mirror]: the set pixels of the kernel      *)
(* image and the flag that Kernel::Mirror toggles.                     *)
(* ------------------------------------------------------------------ *)
\* the points of an image of these sizes, extended by `b` on every side
Points(sizes, b) ==
  {<<x, y>> : x \in (0 - b[0])..(sizes[0] - 1 + b[0]), y \in (0 - b[1])..(sizes[1] - 1 + b[1])}

NoBoundary == AMake(2, 0)

\* std::numeric_limits< TPI >::lowest() and max() of the sample type
Lowest(dt) == IF dt \in {"SFLOAT", "DFLOAT"} THEN 0 - 1000000 ELSE 0

Highest(dt) == IF dt \in {"SFLOAT", "DFLOAT"} THEN 1000000 ELSE IF dt = "BIN" THEN 1 ELSE 255

\* Kernel::Boundary: half the size of the kernel, in each dimension
Boundary(kernel) == [i \in DOMAIN kernel.sizes |-> kernel.sizes[i] \div 2]

\* the coordinates of the kernel's pixels with respect to its origin (the
\* pixel at sizes / 2); a mirrored kernel is reflected about the origin
KernelOffsets(kernel) ==
  LET o == Boundary(kernel)
  IN  {IF kernel.mirror THEN <<o[0] - p[1], o[1] - p[2]>> ELSE <<p[1] - o[0], p[2] - o[1]>> :
         p \in kernel.pixels}

\* Kernel::Mirror
MirrorKernel(kernel) == [kernel EXCEPT !.mirror = ~@]

\* PixelTable: the kernel as runs of pixels along the processing dimension
\* (dimension 0): the offset of the first pixel of each run, and its length
PixelRuns(offsets) ==
  {[x |-> p[1], y |-> p[2], length |-> n] : p \in offsets, n \in 1..Cardinality(offsets)}

IsRun(offsets, run) ==
  /\ <<run.x - 1, run.y>> \notin offsets
  /\ \A k \in 0..(run.length - 1) : <<run.x + k, run.y>> \in offsets
  /\ <<run.x + run.length, run.y>> \notin offsets

RECURSIVE OrderRuns(_)
OrderRuns(runs) ==
  IF runs = {} THEN <<>>
  ELSE LET first == CHOOSE r \in runs :
                      \A q \in runs : r.y < q.y \/ (r.y = q.y /\ r.x <= q.x)
       IN  <<first>> \o OrderRuns(runs \ {first})

\* PixelTableOffsets: Runs() and NumberOfPixels()
PixelTable(kernel) ==
  LET offsets == KernelOffsets(kernel)
  IN  [runs |-> OrderRuns({r \in PixelRuns(offsets) : IsRun(offsets, r)}),
       pixels |-> Cardinality(offsets)]

\* PixelTableOffsets::Offsets(): every pixel of every run
RECURSIVE TableOffsets(_)
TableOffsets(runs) ==
  IF runs = <<>> THEN <<>>
  ELSE [jj \in 1..runs[1].length |-> <<runs[1].x + jj - 1, runs[1].y>>] \o TableOffsets(Tail(runs))

\* div_ceil
DivCeil(a, b) == (a + b - 1) \div b

\* FlatSEMorphologyLineFilter::SetNumberOfThreads: the choice of method
BruteForce(table) == DivCeil(table.pixels, Len(table.runs)) < 4

\* std::max / std::min of the polarity
Better(dilation, a, b) == IF dilation THEN (IF a < b THEN b ELSE a) ELSE (IF b < a THEN b ELSE a)

\* val > max for a dilation, val < min for an erosion
Beats(dilation, val, best) == IF dilation THEN val > best ELSE val < best

\* brute force: the extreme of in[ *it ] over all offsets, for the pixel that
\* `in` points at
RECURSIVE BruteForcePixel(_, _, _, _, _, _)
BruteForcePixel(pix, at, offsets, it, dilation, best) ==
  IF it > Len(offsets) THEN best
  ELSE BruteForcePixel(pix, at, offsets, it + 1, dilation,
                       Better(dilation, best, pix[<<at[1] + offsets[it][1], at[2] + offsets[it][2]>>]))

\* mutant: a value that beats the extreme takes its place but not its position
RECURSIVE EnteringPixelsKeepIndex(_, _, _, _, _, _)
EnteringPixelsKeepIndex(pix, at, runs, dilation, best, index) ==
  IF runs = <<>> THEN [best |-> best, index |-> index]
  ELSE LET len == runs[1].length - 1
           val == pix[<<at[1] + runs[1].x + len, at[2] + runs[1].y>>]
       IN  IF best = val
           THEN EnteringPixelsKeepIndex(pix, at, Tail(runs), dilation, best, IF index < len THEN len ELSE index)
           ELSE IF Beats(dilation, val, best)
           THEN EnteringPixelsKeepIndex(pix, at, Tail(runs), dilation, val, index)
           ELSE EnteringPixelsKeepIndex(pix, at, Tail(runs), dilation, best, index)

\* the extreme is in the filter: only the pixel that entered each run is examined
RECURSIVE EnteringPixels(_, _, _, _, _, _)
EnteringPixels(pix, at, runs, dilation, best, index) ==
  IF runs = <<>> THEN [best |-> best, index |-> index]
  ELSE LET len == runs[1].length - 1
           val == pix[<<at[1] + runs[1].x + len, at[2] + runs[1].y>>]
       IN  IF best = val
           THEN EnteringPixels(pix, at, Tail(runs), dilation, best, IF index < len THEN len ELSE index)
           ELSE IF Beats(dilation, val, best)
           THEN EnteringPixels(pix, at, Tail(runs), dilation, val, len)
           ELSE EnteringPixels(pix, at, Tail(runs), dilation, best, index)

\* the extreme has left the filter: all pixels of all runs are examined
RECURSIVE AllPixels(_, _, _, _, _, _, _)
AllPixels(pix, at, runs, jj, dilation, best, index) ==
  IF runs = <<>> THEN [best |-> best, index |-> index]
  ELSE IF jj >= runs[1].length THEN AllPixels(pix, at, Tail(runs), 0, dilation, best, index)
  ELSE LET val == pix[<<at[1] + runs[1].x + jj, at[2] + runs[1].y>>]
       IN  IF best = val
           THEN AllPixels(pix, at, runs, jj + 1, dilation, best, IF index < jj THEN jj ELSE index)
           ELSE IF Beats(dilation, val, best)
           THEN AllPixels(pix, at, runs, jj + 1, dilation, val, jj)
           ELSE AllPixels(pix, at, runs, jj + 1, dilation, best, index)

\* mutant: the position of the extreme is not moved along with the filter
StayIndex(index) == index

\* index--: the extreme is one pixel closer to the left edge of the filter
ShiftIndex(index) == index - 1

\* run-length method: the loop over the pixels ii of the line y
RECURSIVE RunLengthLine(_, _, _, _, _, _, _, _, _, _)
RunLengthLine(pix, dt, y, length, runs, dilation, ii, best, index, out) ==
  IF ii >= length THEN out
  ELSE LET r == IF index >= 0
                THEN EnteringPixels(pix, <<ii, y>>, runs, dilation, best, index)
                ELSE AllPixels(pix, <<ii, y>>, runs, 0, dilation,
                               IF dilation THEN Lowest(dt) ELSE Highest(dt), 0)
       IN  RunLengthLine(pix, dt, y, length, runs, dilation, ii + 1, r.best,
                         ShiftIndex(r.index), Append(out, r.best))

\* brute-force method: the loop over the pixels of the line y
BruteForceLine(pix, y, length, table, dilation) ==
  LET offsets == TableOffsets(table.runs)
  IN  [k \in 1..length |->
         BruteForcePixel(pix, <<k - 1, y>>, offsets, 2, dilation,
                         pix[<<k - 1 + offsets[1][1], y + offsets[1][2]>>])]

\* FlatSEMorphologyLineFilter::Filter: the output line y (out[ii + 1] is the
\* sample of pixel ii)
FlatSEMorphologyLine(pix, dt, y, length, table, dilation) ==
  IF BruteForce(table)
  THEN BruteForceLine(pix, y, length, table, dilation)
  ELSE RunLengthLine(pix, dt, y, length, table.runs, dilation, 0, 0, 0 - 1, <<>>)

\* the image without what surrounds it in its data segment
Plain(im) == [im EXCEPT !.pix = [p \in Points(im.sizes, NoBoundary) |-> im.pix[p]]]

\* SetSizesUnsafe and SetOriginUnsafe: a view of these sizes whose first
\* pixel is the pixel `origin` of the image
MoveView(im, sizes, origin) ==
  [dt |-> im.dt, sizes |-> sizes,
   pix |-> [p \in {<<q[1] - origin[0], q[2] - origin[1]>> : q \in DOMAIN im.pix} |->
              im.pix[<<p[1] + origin[0], p[2] + origin[1]>>]]]

\* ExtendImage: a new image, larger by `b` on every side, the new pixels
\* filled with the value of the boundary condition
ExtendImage(im, b, fill) ==
  LET sizes == [i \in DOMAIN im.sizes |-> im.sizes[i] + 2 * b[i]]
      inside == Points(im.sizes, NoBoundary)
  IN  [dt |-> im.dt, sizes |-> sizes,
       pix |-> [p \in Points(sizes, NoBoundary) |->
                  LET q == <<p[1] - b[0], p[2] - b[1]>>
                  IN  IF q \in inside THEN im.pix[q] ELSE fill]]

\* BoundaryConditionForDilation / BoundaryConditionForErosion of an empty
\* array: ADD_MIN_VALUE / ADD_MAX_VALUE
BoundaryFill(dt, dilation) == IF dilation THEN 0 ELSE IF dt = "BIN" THEN 1 ELSE 255

ExtendImageDoubleBoundary(im, boundary, fill) ==
  LET doubleBoundary == [i \in DOMAIN boundary |-> boundary[i] * 2]
      out == ExtendImage(im, doubleBoundary, fill)
      outSizes == [ii \in DOMAIN out.sizes |-> out.sizes[ii] - doubleBoundary[ii]]
  IN  MoveView(out, outSizes, boundary)

\* a binary image is processed by the filter for UINT8 samples
OvlType(dt) == IF dt = "BIN" THEN "UINT8" ELSE dt

\* Framework::Full with the flat line filter: every line of the image is
\* filtered into a new image of the same sizes; unless the border is already
\* expanded, the input is first extended by the boundary of the kernel
Full(im, kernel, dilation, borderAlreadyExpanded) ==
  LET b == Boundary(kernel)
      table == PixelTable(kernel)
      input == IF borderAlreadyExpanded THEN im
               ELSE MoveView(ExtendImage(Plain(im), b, BoundaryFill(im.dt, dilation)), im.sizes, b)
      lines == [y \in 0..(im.sizes[1] - 1) |->
                  FlatSEMorphologyLine(input.pix, OvlType(im.dt), y, im.sizes[0], table, dilation)]
  IN  [dt |-> im.dt, sizes |-> im.sizes,
       pix |-> [p \in Points(im.sizes, NoBoundary) |-> lines[p[2]][p[1] + 1]]]

\* Image::Crop( sizes ) of the filtered image: the centred window
CropView(im, sizes) == MoveView(im, sizes, GetWindowOrigin(im.sizes, sizes, "CENTER"))

\* mutant: the second pass of a closing or opening uses the kernel as it is
GeneralSEMorphologyNoMirror(im, kernel, operation) ==
  CASE operation = "DILATION" -> Full(im, kernel, TRUE, FALSE)
    [] operation = "EROSION" -> Full(im, kernel, FALSE, FALSE)
    [] operation = "CLOSING" ->
         LET out == ExtendImageDoubleBoundary(im, Boundary(kernel), BoundaryFill(im.dt, TRUE))
             first == CropView(Full(out, kernel, TRUE, TRUE), im.sizes)
         IN  Full(first, kernel, FALSE, TRUE)
    [] operation = "OPENING" ->
         LET out == ExtendImageDoubleBoundary(im, Boundary(kernel), BoundaryFill(im.dt, FALSE))
             first == CropView(Full(out, kernel, FALSE, TRUE), im.sizes)
         IN  Full(first, kernel, TRUE, TRUE)

\* GeneralSEMorphology with a kernel without weights: the output image
GeneralSEMorphology(im, kernel, operation) ==
  CASE operation = "DILATION" -> Full(im, kernel, TRUE, FALSE)
    [] operation = "EROSION" -> Full(im, kernel, FALSE, FALSE)
    [] operation = "CLOSING" ->
         LET out == ExtendImageDoubleBoundary(im, Boundary(kernel), BoundaryFill(im.dt, TRUE))
             first == CropView(Full(out, kernel, TRUE, TRUE), im.sizes)
         IN  Full(first, MirrorKernel(kernel), FALSE, TRUE)
    [] operation = "OPENING" ->
         LET out == ExtendImageDoubleBoundary(im, Boundary(kernel), BoundaryFill(im.dt, FALSE))
             first == CropView(Full(out, kernel, FALSE, TRUE), im.sizes)
         IN  Full(first, MirrorKernel(kernel), TRUE, TRUE)

\* BasicMorphology with a custom structuring element: the kernel is made
\* from the element (mirrored if the element is) and used by the general filter
BasicMorphology(im, strel, operation) == GeneralSEMorphology(im, strel, operation)

(* ------------------------------------------------------------------ *)
(* morphology/basic.cpp: parabolic structuring element                 *)
(*                                                                     *)
(* The samples are floating-point numbers; the model takes multiples   *)
(* of 1/4, written as integers (the value times 4), and parameters     *)
(* sigma in {1, 2}, for which all results are such multiples too.  A   *)
(* line is a sequence: pixel ii of the line is element ii + 1.         *)
(* ------------------------------------------------------------------ *)
\* lambda = 1.0 / ( params_[ dimension ] * params_[ dimension ] ), in quarters
Lambda(sigma) == 4 \div (sigma * sigma)

\* in[ jj ] - lambda * jj * jj for a dilation, in[ jj ] + lambda * jj * jj
\* for an erosion
Parabola(dilation, v, lambda, jj) ==
  IF dilation THEN v - lambda * jj * jj ELSE v + lambda * jj * jj

\* *in >= *( buf - 1 ) and val >= max for a dilation; <= for an erosion
Dominates(dilation, a, b) == IF dilation THEN a >= b ELSE a <= b

\* mutant: the search skips the position of the previous extremum
SearchStartAfter(index) == IF index < 0 THEN index + 1 ELSE IF index > 0 THEN index - 1 ELSE 0

\* dip::sint jj = index: the search starts at the position of the previous
\* extremum
SearchStart(index) == index

\* the search of the first pass at pixel ii: jj runs from the start up to 0
RECURSIVE SearchBackward(_, _, _, _, _, _, _)
SearchBackward(line, ii, jj, lambda, dilation, best, index) ==
  IF jj > 0 THEN [best |-> best, index |-> index]
  ELSE LET val == Parabola(dilation, line[ii + jj + 1], lambda, jj)
       IN  IF Dominates(dilation, val, best)
           THEN SearchBackward(line, ii, jj + 1, lambda, dilation, val, jj)
           ELSE SearchBackward(line, ii, jj + 1, lambda, dilation, best, index)

\* the first pass, from left to right, from pixel ii on: the line is read
\* and the buffer is written
RECURSIVE LeftToRight(_, _, _, _, _, _)
LeftToRight(line, buf, ii, index, lambda, dilation) ==
  IF ii >= Len(line) THEN buf
  ELSE IF Dominates(dilation, line[ii + 1], buf[ii])
  THEN LeftToRight(line, [buf EXCEPT ![ii + 1] = line[ii + 1]], ii + 1, 0, lambda, dilation)
  ELSE LET r == SearchBackward(line, ii, SearchStart(index - 1), lambda, dilation,
                               IF dilation THEN Lowest("SFLOAT") ELSE Highest("SFLOAT"),
                               index - 1)
       IN  LeftToRight(line, [buf EXCEPT ![ii + 1] = r.best], ii + 1, r.index, lambda, dilation)

\* the search of the second pass at pixel ii: jj runs from the start down to 0
RECURSIVE SearchForward(_, _, _, _, _, _, _)
SearchForward(buf, ii, jj, lambda, dilation, best, index) ==
  IF jj < 0 THEN [best |-> best, index |-> index]
  ELSE LET val == Parabola(dilation, buf[ii + jj + 1], lambda, jj)
       IN  IF Dominates(dilation, val, best)
           THEN SearchForward(buf, ii, jj - 1, lambda, dilation, val, jj)
           ELSE SearchForward(buf, ii, jj - 1, lambda, dilation, best, index)

\* the second pass, from right to left, from pixel ii down: the buffer is
\* read and the output line is written
RECURSIVE RightToLeft(_, _, _, _, _, _)
RightToLeft(buf, out, ii, index, lambda, dilation) ==
  IF ii < 0 THEN out
  ELSE IF Dominates(dilation, buf[ii + 1], out[ii + 2])
  THEN RightToLeft(buf, [out EXCEPT ![ii + 1] = buf[ii + 1]], ii - 1, 0, lambda, dilation)
  ELSE LET r == SearchForward(buf, ii, SearchStart(index + 1), lambda, dilation,
                              IF dilation THEN Lowest("SFLOAT") ELSE Highest("SFLOAT"),
                              index + 1)
       IN  RightToLeft(buf, [out EXCEPT ![ii + 1] = r.best], ii - 1, r.index, lambda, dilation)

\* std::vector::resize: the first elements are kept, new elements are 0
Resize(buf, length) == [k \in 1..length |-> IF k <= Len(buf) THEN buf[k] ELSE 0]

\* ParabolicMorphologyLineFilter::Filter, first half: the buffer of the thread
\* is resized if its size is not the length of the line, and the first pass
\* fills it
FilterLeftToRight(line, buffer, sigma, dilation) ==
  LET buf == IF Len(buffer) # Len(line) THEN Resize(buffer, Len(line)) ELSE buffer
  IN  LeftToRight(line, [buf EXCEPT ![1] = line[1]], 1, 0, Lambda(sigma), dilation)

\* ParabolicMorphologyLineFilter::Filter, second half: the output line is
\* written from the buffer
FilterRightToLeft(buf, out, sigma, dilation) ==
  LET length == Len(buf)
  IN  RightToLeft(buf, [out EXCEPT ![length] = buf[length]], length - 2, 0, Lambda(sigma), dilation)

\* mutant: all threads use the first buffer
FirstBuffer(thread) == 0

\* buffers_[ params.thread ]: the buffer of the thread
BufferOf(thread) == thread

(* ------------------------------------------------------------------ *)
(* morphology/basic.cpp: dispatch of diamond and elliptic structuring  *)
(* elements                                                            *)
(*                                                                     *)
(* Sizes are floating-point numbers; the model takes multiples of 1/4, *)
(* written as integers (the size times 4).  The result of a dispatch   *)
(* function is the sequence of the filters it calls, each a record     *)
(* [filter, reps, sizes]: reps is the number of iterations of the      *)
(* elemental diamond or the length of the diagonal lines (else 0), and *)
(* sizes the sizes handed to the filter.                               *)
(* ------------------------------------------------------------------ *)
FilterCall(filter, reps, sizes) == [filter |-> filter, reps |-> reps, sizes |-> sizes]

\* std::floor( size / 2 ) * 2 + 1
OddSize(q) == ((q \div 8) * 2 + 1) * 4

\* mutant: a single iteration of the elemental diamond
OneRep(param) == 1

\* dip::uint reps = dip::uint( param ) / 2
DiamondReps(param) == (param \div 4) \div 2

\* the loop of DiamondMorphology over the dimensions, from dimension ii on
RECURSIVE DiamondLoop(_, _)
DiamondLoop(st, ii) ==
  IF ii >= ALen(st.size) THEN st
  ELSE LET odd == OddSize(st.size[ii])
           s1  == [st EXCEPT !.size[ii] = odd]
       IN  IF odd > 4
           THEN LET s2 == [s1 EXCEPT !.nProcDims = @ + 1]
                IN  IF s2.param = 0
                    THEN DiamondLoop([s2 EXCEPT !.param = odd, !.procDim = ii, !.dim2 = ii], ii + 1)
                    ELSE IF odd # s2.param
                    THEN [s2 EXCEPT !.isotropic = FALSE]
                    ELSE DiamondLoop([s2 EXCEPT !.dim2 = ii], ii + 1)
           ELSE DiamondLoop(s1, ii + 1)

\* std::round(( param - 3.0 ) / 2.0 + 1.0 ), for an odd param, in pixels
LineLength(param) == ((param \div 4) - 3) \div 2 + 1

DiamondMorphology(size) ==
  LET st == DiamondLoop([size |-> size, param |-> 0, isotropic |-> TRUE,
                         nProcDims |-> 0, procDim |-> 0, dim2 |-> 0], 0)
  IN  IF st.nProcDims <= 1
      THEN <<FilterCall("RectangularMorphology", 0, st.size)>>
      ELSE IF ~st.isotropic \/ st.nProcDims > 2
      THEN <<FilterCall("GeneralSEMorphology", 0, st.size)>>
      ELSE IF st.param <= 9 * 4
      THEN <<FilterCall("Elemental2DDiamondMorphology", DiamondReps(st.param), <<st.procDim, st.dim2>>)>>
      ELSE <<FilterCall("Elemental2DDiamondMorphology", 1, <<st.procDim, st.dim2>>),
             FilterCall("TwoStep2DDiamondMorphology", LineLength(st.param), <<st.procDim, st.dim2>>)>>

\* the loop of EllipticMorphology over the dimensions, from dimension ii on
RECURSIVE EllipticLoop(_, _)
EllipticLoop(st, ii) ==
  IF ii >= ALen(st.sizes) THEN st
  ELSE IF st.sizes[ii] > 2 * 4
  THEN LET s1 == IF st.diameter = 0
                 THEN LET param == IF st.sizes[ii] <= 4 * 4 THEN 3 * 4 ELSE 5 * 4
                      IN  [st EXCEPT !.diameter = st.sizes[ii], !.param = param,
                                     !.sizes[ii] = param, !.dim1 = ii]
                 ELSE IF st.sizes[ii] = st.diameter
                 THEN [st EXCEPT !.sizes[ii] = st.param]
                 ELSE [st EXCEPT !.isotropic = FALSE]
       IN  EllipticLoop([s1 EXCEPT !.dim2 = ii, !.nDims = @ + 1], ii + 1)
  ELSE EllipticLoop([st EXCEPT !.sizes[ii] = 4], ii + 1)

EllipticMorphology(ellipseSizes) ==
  LET st == EllipticLoop([sizes |-> ellipseSizes, diameter |-> 0, param |-> 0,
                          isotropic |-> TRUE, dim1 |-> 0, dim2 |-> 0, nDims |-> 0], 0)
  IN  IF st.diameter = 0
      THEN <<FilterCall("Copy", 0, ellipseSizes)>>
      ELSE IF st.nDims = 1
      \* std::floor(( ellipseSizes[ dim1 ] - 1e-6 ) / 2 ) * 2 + 1
      THEN <<FilterCall("RectangularMorphology", 0,
                        [st.sizes EXCEPT ![st.dim1] = OddSize(ellipseSizes[st.dim1] - 1)])>>
      ELSE IF st.isotropic /\ st.nDims = 2 /\ st.diameter * st.diameter <= 8 * 16
      THEN <<FilterCall("Elemental2DDiamondMorphology", 1, <<st.dim1, st.dim2>>)>>
      ELSE IF st.isotropic /\ st.nDims = 2 /\ st.diameter <= 4 * 4
      THEN <<FilterCall("RectangularMorphology", 0, st.sizes)>>
      ELSE IF st.isotropic /\ st.nDims = 2 /\ st.diameter * st.diameter <= 20 * 16
      THEN <<FilterCall("Elemental2DDiamondMorphology", 2, <<st.dim1, st.dim2>>)>>
      ELSE <<FilterCall("GeneralSEMorphology", 0, ellipseSizes)>>

(* ------------------------------------------------------------------ *)
(* measurement/chain_code.cpp: dip::ChainCode                          *)
(*                                                                     *)
(* A chain code is a record [codes, start, is8connected]: codes is the *)
(* sequence of its codes, each a record [code, border] (element ii + 1 *)
(* is codes[ ii ]), and start the point <<x, y>>.  The vertices of a   *)
(* polygon lie on half pixels: the model writes every coordinate of a  *)
(* vertex times 2.                                                     *)
(* ------------------------------------------------------------------ *)
Code(code, border) == [code |-> code, border |-> border]

\* the steps of the 4-connected codes: right, up, left, down
deltas4 == <<<<1, 0>>, <<0, -1>>, <<-1, 0>>, <<0, 1>>>>

\* the steps of the 8-connected codes, from right on, counter-clockwise
deltas8 == <<<<1, 0>>, <<1, -1>>, <<0, -1>>, <<-1, -1>>, <<-1, 0>>, <<-1, 1>>, <<0, 1>>, <<1, 1>>>>

Plus(p, q) == <<p[1] + q[1], p[2] + q[2]>>

Minus(p, q) == <<p[1] - q[1], p[2] - q[2]>>

\* mutant: the pair of codes at the end of the chain is not merged
MergesWithNextInside(codes, ii) ==
  ii + 2 < Len(codes) /\ (codes[ii + 1].code + 1) % 4 = codes[ii + 2].code

\* ( cur + 1 ) % 4 == next, for cur = codes[ ii ] and next = codes[ ii + 1 ]
MergesWithNext(codes, ii) == (codes[ii + 1].code + 1) % 4 = codes[ii + 2].code

\* the loop of ConvertTo8Connected from code ii on; yields the codes pushed
\* and the value of ii after the loop
RECURSIVE ConvertLoop(_, _, _)
ConvertLoop(codes, ii, out) ==
  IF ii >= Len(codes) - 1 THEN [codes |-> out, ii |-> ii]
  ELSE IF MergesWithNext(codes, ii)
  THEN ConvertLoop(codes, ii + 2, Append(out, Code(codes[ii + 1].code * 2 + 1, FALSE)))
  ELSE ConvertLoop(codes, ii + 1, Append(out, Code(codes[ii + 1].code * 2, codes[ii + 1].border)))

ConvertTo8Connected(cc) ==
  IF cc.is8connected THEN cc
  ELSE IF Len(cc.codes) < 3
  THEN [codes |-> [k \in 1..Len(cc.codes) |-> Code(cc.codes[k].code * 2, cc.codes[k].border)],
        start |-> cc.start, is8connected |-> TRUE]
  ELSE LET cur == cc.codes[Len(cc.codes)]
           skipLast == (cur.code + 1) % 4 = cc.codes[1].code
           r == IF skipLast
                THEN ConvertLoop(cc.codes, 1, <<Code(cur.code * 2 + 1, FALSE)>>)
                ELSE ConvertLoop(cc.codes, 0, <<>>)
       IN  [codes |-> IF r.ii < Len(cc.codes) /\ ~skipLast
                      THEN Append(r.codes, Code(cc.codes[r.ii + 1].code * 2, cc.codes[r.ii + 1].border))
                      ELSE r.codes,
            start |-> IF skipLast THEN Minus(cc.start, deltas4[cur.code + 1]) ELSE cc.start,
            is8connected |-> TRUE]

\* pts, times 2
pts == <<<<0, -1>>, <<-1, 0>>, <<0, 1>>, <<1, 0>>>>

DecrementMod4(k) == IF k = 0 THEN 3 ELSE k - 1

\* the vertex pts[ k ] + pos, times 2
Vertex(k, pos) == <<pts[k + 1][1] + 2 * pos[1], pts[k + 1][2] + 2 * pos[2]>>

\* the vertices pushed in Polygon for the code n that follows the code m
StepVertices(m, n, pos) ==
  LET k0 == IF (m + 1) \div 2 = 4 THEN 0 ELSE (m + 1) \div 2
      l  == (IF n \div 2 < k0 THEN n \div 2 + 4 ELSE n \div 2) - k0
      k1 == DecrementMod4(k0)
      k2 == DecrementMod4(k1)
      k3 == DecrementMod4(k2)
  IN  <<Vertex(k0, pos)>>
      \o (IF l # 0 THEN <<Vertex(k1, pos)>> ELSE <<>>)
      \o (IF l # 0 /\ l <= 2 THEN <<Vertex(k2, pos)>> ELSE <<>>)
      \o (IF l # 0 /\ l <= 2 /\ l = 1 THEN <<Vertex(k3, pos)>> ELSE <<>>)

\* the loop of Polygon over the codes from code ii on
RECURSIVE PolygonLoop(_, _, _, _, _)
PolygonLoop(codes, ii, m, pos, vertices) ==
  IF ii >= Len(codes) THEN vertices
  ELSE LET n == codes[ii + 1].code
       IN  PolygonLoop(codes, ii + 1, n, Plus(pos, deltas8[n + 1]),
                       vertices \o StepVertices(m, n, pos))

\* ChainCode::Polygon: the vertices, or the error thrown
Polygon(this) ==
  IF Len(this.codes) = 1
  THEN [vertices |-> <<>>, err |-> "Received a weird this code as input (N==1)"]
  ELSE LET cc == IF this.is8connected THEN this ELSE ConvertTo8Connected(this)
       IN  IF cc.codes = <<>>
           THEN [vertices |-> <<Vertex(0, cc.start), Vertex(3, cc.start),
                                Vertex(2, cc.start), Vertex(1, cc.start)>>,
                 err |-> ""]
           ELSE [vertices |-> PolygonLoop(cc.codes, 0, cc.codes[Len(cc.codes)].code,
                                          cc.start, <<>>),
                 err |-> ""]

\* the codes of the tracer for a connectivity, and the steps they stand for
Steps(connectivity) == IF connectivity = 1 THEN deltas4 ELSE deltas8

\* the loop of the boundary tracer: at the pixel coord it looks in direction
\* dir; an labels pixel there is the next pixel of the boundary and the search
\* goes on one quarter turn to the left of dir, else with the next direction
\* to the right; the loop ends back at the start looking in direction 0
RECURSIVE TraceLoop(_, _, _, _, _, _)
TraceLoop(labels, connectivity, start, coord, dir, codes) ==
  LET nDirs == Len(Steps(connectivity))
      nc    == Plus(coord, Steps(connectivity)[dir + 1])
      moved == nc \in labels
      coord1 == IF moved THEN nc ELSE coord
      dir1  == IF moved THEN (dir + nDirs \div 4) % nDirs
               ELSE IF dir = 0 THEN nDirs - 1 ELSE dir - 1
      codes1 == IF moved THEN Append(codes, Code(dir, FALSE)) ELSE codes
  IN  IF coord1 = start /\ dir1 = 0
      THEN codes1
      ELSE TraceLoop(labels, connectivity, start, coord1, dir1, codes1)

\* the first pixel of the object in raster order
FirstPixel(labels) ==
  CHOOSE p \in labels : \A q \in labels : p[2] < q[2] \/ (p[2] = q[2] /\ p[1] <= q[1])

\* the chain code of the boundary of the object, traced from its first pixel
GetSingleChainCode(labels, connectivity) ==
  [codes |-> TraceLoop(labels, connectivity, FirstPixel(labels), FirstPixel(labels), 0, <<>>),
   start |-> FirstPixel(labels),
   is8connected |-> connectivity # 1]

(* ------------------------------------------------------------------ *)
(* transform/dft.cpp: the cache of DFT plans                           *)
(*                                                                     *)
(* The cache maps a length to a record [use_count, last_access, plan]; *)
(* plan is the address of the plan object, a positive number.  The     *)
(* model runs PlanCache with a small maxSize (30 in the code) and a    *)
(* narrow access counter, so that eviction and the overflow of the     *)
(* counter happen.                                                     *)
(* ------------------------------------------------------------------ *)
\* std::make_unique< PlanType >( length ): an address that no plan of the
\* cache has
NewPlan(entries) ==
  CHOOSE a \in 1..(Cardinality(DOMAIN entries) + 1) :
    \A len \in DOMAIN entries : entries[len].plan # a

\* mutant: a release that does not lower the use count
PlanCacheFreeKept(entries, length) == entries

\* PlanCache( length, true ): the use count of the plan is lowered
PlanCacheFree(entries, length) ==
  IF length \in DOMAIN entries /\ entries[length].use_count > 0
  THEN [entries EXCEPT ![length].use_count = @ - 1]
  ELSE entries

\* the overflow of access_counter: all plans get last_access 0
ResetAccess(entries, counter) ==
  IF counter = CounterMax
  THEN [entries |-> [len \in DOMAIN entries |-> [entries[len] EXCEPT !.last_access = 0]],
        access_counter |-> 1]
  ELSE [entries |-> entries, access_counter |-> counter]

\* mutant: the plans in use are candidates for deletion too
AnyUse(data) == TRUE

\* p.second.use_count == 0
NotInUse(data) == data.use_count = 0

\* the lengths that the search for a plan to delete can end with: the plans
\* not in use with the smallest last_access below access_counter (which of
\* several depends on the order of the map)
Deletable(entries, counter) ==
  LET unused == {len \in DOMAIN entries :
                   NotInUse(entries[len]) /\ entries[len].last_access < counter}
  IN  {len \in unused : \A other \in unused : entries[len].last_access <= entries[other].last_access}

Without(entries, len) == [l \in DOMAIN entries \ {len} |-> entries[l]]

\* PlanCache( length ): the possible outcomes [entries, access_counter, plan]
PlanCache(entries0, counter0, length) ==
  LET r == ResetAccess(entries0, counter0)
      entries == r.entries
      counter == r.access_counter + 1
  IN  IF length \in DOMAIN entries
      THEN {[entries |-> [entries EXCEPT ![length].use_count = @ + 1,
                                         ![length].last_access = counter],
             access_counter |-> counter,
             plan |-> entries[length].plan]}
      ELSE LET kept == IF Cardinality(DOMAIN entries) >= maxSize
                          /\ Deletable(entries, r.access_counter) # {}
                       THEN {Without(entries, len) : len \in Deletable(entries, r.access_counter)}
                       ELSE {entries}
           IN  {[entries |-> [l \in DOMAIN k \cup {length} |->
                                IF l = length
                                THEN [use_count |-> 1, last_access |-> counter, plan |-> NewPlan(k)]
                                ELSE k[l]],
                 access_counter |-> counter,
                 plan |-> NewPlan(k)] : k \in kept}

\* Image::Mirror( BooleanArray process ): the flagged dimensions are
\* mirrored one after the other, from dimension ii on
RECURSIVE MirrorEach(_, _, _)
MirrorEach(im, process, ii) ==
  IF ii >= ALen(im.sizes) THEN im
  ELSE MirrorEach(IF ii \in process THEN Mirror(im, ii).img ELSE im, process, ii + 1)

\* mutant: the remainder of a negative n is not moved into 0..3, so that the
\* switch takes its default branch
Rotation90Truncated(im, n, dimension1, dimension2) ==
  LET nd == ALen(im.sizes)
      m == CMod(n, 4)
  IN  IF ~IsForged(im) THEN Throw(im, "IMAGE_NOT_FORGED")
      ELSE IF dimension1 >= nd \/ dimension2 >= nd \/ dimension1 = dimension2
        THEN Throw(im, "INVALID_PARAMETER")
      ELSE CASE m = 1 -> SwapDimensions(MirrorEach(im, {dimension2}, 0), dimension1, dimension2)
             [] m = 2 -> Ok(MirrorEach(im, {dimension1, dimension2}, 0))
             [] m = 3 -> SwapDimensions(MirrorEach(im, {dimension1}, 0), dimension1, dimension2)
             [] OTHER -> Ok(im)

\* Image::Rotation90( n, dimension1, dimension2 )
Rotation90(im, n, dimension1, dimension2) ==
  LET nd == ALen(im.sizes)
      r == CMod(n, 4)
      m == IF r < 0 THEN r + 4 ELSE r
  IN  IF ~IsForged(im) THEN Throw(im, "IMAGE_NOT_FORGED")
      ELSE IF dimension1 >= nd \/ dimension2 >= nd \/ dimension1 = dimension2
        THEN Throw(im, "INVALID_PARAMETER")
      ELSE CASE m = 1 -> SwapDimensions(MirrorEach(im, {dimension2}, 0), dimension1, dimension2)
             [] m = 2 -> Ok(MirrorEach(im, {dimension1, dimension2}, 0))
             [] m = 3 -> SwapDimensions(MirrorEach(im, {dimension1}, 0), dimension1, dimension2)
             [] OTHER -> Ok(im)

(* ------------------------------------------------------------------ *)
(* image_copy.cpp: SwapBytesInSample, on a data segment whose bytes    *)
(* are addressed one by one                                            *)
(* ------------------------------------------------------------------ *)
\* Image::TensorToSpatial( dim ): the tensor elements become a dimension
TensorToSpatial(im, dim) ==
  IF ~IsForged(im) THEN Throw(im, "IMAGE_NOT_FORGED")
  ELSE IF dim > ALen(im.sizes) THEN Throw(im, "INVALID_PARAMETER")
  ELSE Ok([im EXCEPT !.sizes = AInsert(im.sizes, dim, im.telems),
                     !.strides = AInsert(im.strides, dim, im.tstride),
                     !.telems = 1,
                     !.tstride = 1])

\* InternSwapBytesInSample< TPI >: the bytes c[ ii ] and
\* c[ sizeof( TPI ) - 1 - ii ] of every sample of the image are exchanged
InternSwapBytesInSample(im, bytes) ==
  LET size == SizeOf(im.dt)
      starts == Addresses(im)
  IN  [b \in DOMAIN bytes |->
         IF \E a \in starts : a <= b /\ b < a + size
         THEN LET a == CHOOSE s \in starts : s <= b /\ b < s + size
              IN  bytes[a + (size - 1 - (b - a))]
         ELSE bytes[b]]

\* the unsigned integer type of a number of bytes
UIntOfSize(size) ==
  CASE size = 2 -> "UINT16" [] size = 4 -> "UINT32" [] size = 8 -> "UINT64"

\* Image::SwapBytesInSample: the switch is on the size of the samples of the
\* image itself, not of tmp
SwapBytesInSample(im, m) ==
  IF ~IsForged(im) THEN [img |-> im, err |-> "IMAGE_NOT_FORGED", mem |-> m]
  ELSE IF SizeOf(im.dt) = 1 THEN [img |-> im, err |-> "", mem |-> m]
  ELSE LET spatial == IF im.telems # 1 THEN TensorToSpatial(im, ALen(im.sizes)).img ELSE im
           tmp == IF IsComplex(spatial.dt) THEN SplitComplex(spatial, 0).img ELSE spatial
       IN  IF SizeOf(im.dt) \notin {2, 4, 8}
           THEN [img |-> im, err |-> "NOT_IMPLEMENTED", mem |-> m]
           ELSE LET r == ReinterpretCast(tmp, UIntOfSize(SizeOf(im.dt)))
                IN  IF r.err # "" THEN [img |-> im, err |-> r.err, mem |-> m]
                    ELSE [img |-> im, err |-> "",
                          mem |-> [m EXCEPT ![im.seg] = InternSwapBytesInSample(r.img, @)]]

(* ------------------------------------------------------------------ *)
(* image_copy.cpp: copying the pixels that a mask selects into an      *)
(* image (the copy from an irregular view)                             *)
(* ------------------------------------------------------------------ *)
\* the loop of CopyFrom: srcIt runs over src and srcMask jointly, destIt
\* over dest; the pixel at every set mask pixel is copied
RECURSIVE CopyFromLoop(_, _, _, _, _, _)
CopyFromLoop(s, dest, srcMask, m, srcIt, destIt) ==
  IF srcIt >= NumberOfPixels(s) THEN [img |-> dest, mem |-> m, err |-> ""]
  ELSE IF Sample(m, srcMask, CoordsAt(s, srcIt), 0) = 0
  THEN CopyFromLoop(s, dest, srcMask, m, srcIt + 1, destIt)
  ELSE CopyFromLoop(s, dest, srcMask,
                    CopyPixel(m, dest, CoordsAt(dest, destIt), s, CoordsAt(s, srcIt)),
                    srcIt + 1, destIt + 1)

\* CopyFrom( src, dest, srcMask ): dest is forged anew as a 1-D image of the
\* N selected pixels unless it is forged with N pixels and src's tensor
\* elements; forging anew strips dest first, which a protected image refuses
CopyFrom(s, dest, srcMask, m) ==
  IF ~IsForged(s) \/ ~IsForged(srcMask) THEN [img |-> dest, mem |-> m, err |-> "IMAGE_NOT_FORGED"]
  ELSE IF CheckIsMask(srcMask, s.sizes) # ""
    THEN [img |-> dest, mem |-> m, err |-> CheckIsMask(srcMask, s.sizes)]
  ELSE
    LET N == Count(srcMask, m)
    IN  IF ~IsForged(dest) \/ NumberOfPixels(dest) # N \/ dest.telems # s.telems
        THEN LET st == Strip(dest)
             IN  IF st.err # "" THEN [img |-> dest, mem |-> m, err |-> st.err]
                 ELSE IF N = 0 THEN [img |-> st.img, mem |-> m, err |-> "Cannot forge an image without pixels"]
                 ELSE LET f == Forge([st.img EXCEPT !.dt = s.dt, !.sizes = AMake(1, N),
                                                    !.strides = AMake(0, 0),
                                                    !.telems = s.telems, !.tstride = 1], m)
                      IN  CopyFromLoop(s, f.img, srcMask, f.mem, 0, 0)
        ELSE CopyFromLoop(s, dest, srcMask, m, 0, 0)

\* Image::Copy( Image::View const& src ) for a view with a mask: the image is
\* protected during the copy, and the flag is put back after CopyFrom returns
CopyView(dest, s, srcMask, m) ==
  IF dest.telems # s.telems THEN [img |-> dest, mem |-> m, err |-> "NTENSORELEM_DONT_MATCH"]
  ELSE
    LET prot == dest.prot
        protected == IF IsForged(dest) THEN [dest EXCEPT !.prot = TRUE] ELSE dest
        r == CopyFrom(s, protected, srcMask, m)
    IN  IF r.err # "" THEN r
        ELSE [img |-> [r.img EXCEPT !.prot = prot], mem |-> r.mem, err |-> ""]

(* ------------------------------------------------------------------ *)
(* feature_grey_size.h: FeatureGreySize                                *)
(* ------------------------------------------------------------------ *)
\* data_.resize( nObjects * nTensor_, 0 )
FeatureData(nObjects, nTensor) == AMake(nObjects * nTensor, 0)

\* &( data_[ it.value() ] ) and &data_[ objectIndex ]: the first slot of the
\* accumulators of the object with this index
FeatureSlot(objectIndex) == objectIndex

\* the loop of ScanLine from pixel k of the line on: objectID is the label
\* looked up last, ptr the slot that `data` points at (-1: nullptr)
RECURSIVE ScanLineLoop(_, _, _, _, _, _, _)
ScanLineLoop(data, nTensor, indices, line, k, objectID, ptr) ==
  IF k > Len(line) THEN data
  ELSE IF line[k].label > 0
  THEN LET fetch == line[k].label # objectID
           id == IF fetch THEN line[k].label ELSE objectID
           at == IF ~fetch THEN ptr
                 ELSE IF id \in DOMAIN indices THEN FeatureSlot(indices[id]) ELSE 0 - 1
           sums == IF at < 0 THEN data
                   ELSE [s \in DOMAIN data |->
                           IF s >= at /\ s < at + nTensor
                           THEN data[s] + line[k].grey[s - at] ELSE data[s]]
       IN  ScanLineLoop(sums, nTensor, indices, line, k + 1, id, at)
  ELSE ScanLineLoop(data, nTensor, indices, line, k + 1, objectID, ptr)

\* FeatureGreySize::ScanLine
ScanLine(data, nTensor, indices, line) == ScanLineLoop(data, nTensor, indices, line, 1, 0, 0 - 1)

\* FeatureGreySize::Finish( objectIndex, output ): the values written
Finish(data, nTensor, scale, objectIndex) ==
  [ii \in 0..(nTensor - 1) |-> data[FeatureSlot(objectIndex) + ii] * scale]

(* ----------------------------------------------------------------------- *)
(* The elemental 2-D diamond line filter (basic.cpp 557-763).  A           *)
(* coordinate is an array over 0..2: the image has the two filtered        *)
(* dimensions dim1_ and dim2_ and one more.  The pointer arithmetic of the *)
(* filter is kept as coordinates: in[ -stride1_ ] at pixel p is the sample *)
(* one step back along dim1_, and advancing `in` and `out` by their        *)
(* strides is one step along params.dimension.  A sample read at a         *)
(* coordinate that is not in the image has the value `outside`.            *)
(* ----------------------------------------------------------------------- *)
\* the members set by the constructor (basic.cpp 726-730), with the
\* arguments that Elemental2DDiamondMorphology passes (basic.cpp 755-756)
Elemental2DDiamondMorphologyLineFilter(im, dim1, dim2, polarity) ==
  [dim1_ |-> dim1, dim2_ |-> dim2,
   size1_ |-> im.sizes[dim1], size2_ |-> im.sizes[dim2],
   dilation_ |-> (polarity = "DILATION")]

\* edge1 and edge2: -1 on the first line of the dimension, 1 on the last one
\* (basic.cpp 577-592)
Edge(procDim, which, pos, size) ==
  IF procDim # which
  THEN IF pos = 0 THEN -1 ELSE IF pos = size - 1 THEN 1 ELSE 0
  ELSE 0

\* one guarded read of a neighbour: `which` is 1 for stride1_ and 2 for
\* stride2_, delta is the sign of the stride
Tap(cond, which, delta) == IF cond THEN <<<<which, delta>>>> ELSE <<>>

\* the reads of the branch for a line on an edge (basic.cpp 593-646)
CarefulTaps(part, procDim, edge1, edge2) ==
  CASE part = "first" ->
         Tap(procDim # 1 /\ edge1 # -1, 1, -1) \o Tap(edge1 # 1, 1, 1)
           \o Tap(procDim # 2 /\ edge2 # -1, 2, -1) \o Tap(edge2 # 1, 2, 1)
    [] part = "most" ->
         Tap(edge1 # -1, 1, -1) \o Tap(edge1 # 1, 1, 1)
           \o Tap(edge2 # -1, 2, -1) \o Tap(edge2 # 1, 2, 1)
    [] part = "last" ->
         Tap(edge1 # -1, 1, -1) \o Tap(procDim # 1 /\ edge1 # 1, 1, 1)
           \o Tap(edge2 # -1, 2, -1) \o Tap(procDim # 2 /\ edge2 # 1, 2, 1)

\* the reads of the branch for a line off the edges, the same for a
\* dilation and an erosion (basic.cpp 647-723)
PlowTaps(part, procDim) ==
  CASE part = "first" ->
         Tap(procDim # 1, 1, -1) \o Tap(TRUE, 1, 1)
           \o Tap(procDim # 2, 2, -1) \o Tap(TRUE, 2, 1)
    [] part = "most" ->
         Tap(TRUE, 1, -1) \o Tap(TRUE, 1, 1) \o Tap(TRUE, 2, -1) \o Tap(TRUE, 2, 1)
    [] part = "last" ->
         Tap(TRUE, 1, -1) \o Tap(procDim # 1, 1, 1)
           \o Tap(TRUE, 2, -1) \o Tap(procDim # 2, 2, 1)

\* the coordinate of in[ delta * stride ] at pixel p
Neighbour(f, p, tap) ==
  LET d == IF tap[1] = 1 THEN f.dim1_ ELSE f.dim2_
  IN  [p EXCEPT ![d] = @ + tap[2]]

\* the value of a read at coordinate q
ReadSample(im, q, outside) == IF q \in DOMAIN im.pix THEN im.pix[q] ELSE outside

\* dilation_ ? std::max( val, x ) : std::min( val, x )
Extremum(dilation, val, x) ==
  IF dilation THEN (IF x > val THEN x ELSE val) ELSE (IF x < val THEN x ELSE val)

\* val after the reads of one pixel, starting from val = in[ 0 ]
RECURSIVE FoldTaps(_, _, _, _, _, _)
FoldTaps(f, im, p, taps, val, outside) ==
  IF taps = <<>> THEN val
  ELSE FoldTaps(f, im, p, Tail(taps),
                Extremum(f.dilation_, val, ReadSample(im, Neighbour(f, p, Head(taps)), outside)),
                outside)

\* the number of passes of `for( ii = 1; ii < bufferLength - 1; ++ii )`,
\* bufferLength being unsigned and at least 1
MostPixels(bufferLength) == IF bufferLength > 2 THEN bufferLength - 2 ELSE 0

\* Filter (basic.cpp 563-725) on the line that starts at params.position:
\* the coordinates it reads and the samples it writes, in order.  The first
\* pixel, the pixels of the loop and the last pixel are each read, written
\* and followed by one step of `in` and `out`, so that step k is at index
\* k - 1 of the line.
Elemental2DDiamondFilter(f, params, im, outside) ==
  LET procDim == IF f.dim1_ = params.dimension THEN 1
                 ELSE IF f.dim2_ = params.dimension THEN 2 ELSE 0
      edge1 == Edge(procDim, 1, params.position[f.dim1_], f.size1_)
      edge2 == Edge(procDim, 2, params.position[f.dim2_], f.size2_)
      steps == MostPixels(params.bufferLength) + 2
      part(k) == IF k = 1 THEN "first" ELSE IF k = steps THEN "last" ELSE "most"
      taps(k) == IF edge1 # 0 \/ edge2 # 0
                 THEN CarefulTaps(part(k), procDim, edge1, edge2)
                 ELSE PlowTaps(part(k), procDim)
      at(k) == [params.position EXCEPT ![params.dimension] = k - 1]
  IN  [reads |-> UNION {{at(k)} \cup {Neighbour(f, at(k), taps(k)[j]) : j \in 1..Len(taps(k))}
                          : k \in 1..steps},
       writes |-> [k \in 1..steps |->
                     [at |-> at(k),
                      val |-> FoldTaps(f, im, at(k), taps(k), ReadSample(im, at(k), outside), outside)]]]

(* ------------------------------------------------------------------ *)
(* The view state machine: one image handle `img` derived from the     *)
(* freshly forged image `orig` by a sequence of view operations.       *)
(*   hist      the last two calls, latest first: [op, arg, loc, err]   *)
(*   before    the image before the last call                          *)
(*   pmem      the memory before the last call                         *)
(*   before2   the image before the call preceding the last one, kept  *)
(*             when the two calls are one of PairedOps (else: before)  *)
(*   used      the operations that produced `before` from `orig`       *)
(*   nops      number of calls made                                    *)
(*   mask      the mask image of the masked copy operations (else raw) *)
(* ------------------------------------------------------------------ *)
NoArg == AMake(0, 0)

\* the parts of the state that a specification does not use stay as they are
ViewIdle ==
  /\ img = RawImage /\ orig = RawImage /\ mask = RawImage
  /\ before = RawImage /\ before2 = RawImage
  /\ mem = <<>> /\ pmem = <<>> /\ hist = <<>> /\ used = {} /\ nops = 0

MorphIdle ==
  /\ picture = <<>> /\ pictureBefore = <<>> /\ pictureIn = <<>> /\ se = <<>> /\ calls = <<>>

LineIdle ==
  /\ lineIn = <<>> /\ lineOut = <<>> /\ buffers = <<>> /\ work = <<>>
  /\ taken = {} /\ filtered = {} /\ filterParam = <<>>

DispatchIdle == seShape = "" /\ seParams = <<>> /\ route = <<>>

ChainIdle ==
  /\ object = {} /\ chain = <<>> /\ chain8 = <<>> /\ converted = <<>>
  /\ polygon4 = <<>> /\ polygon8 = <<>>

PlanIdle == cache = <<>> /\ access_counter = 0 /\ dfts = <<>> /\ spared = FALSE

MeasureIdle ==
  /\ data_ = <<>> /\ nTensor_ = 0 /\ scale_ = 0 /\ objectIndices = <<>> /\ scanned = <<>>

NonMeasureIdle == ViewIdle /\ MorphIdle /\ LineIdle /\ DispatchIdle /\ ChainIdle /\ PlanIdle

NonViewIdle == MorphIdle /\ LineIdle /\ DispatchIdle /\ ChainIdle /\ PlanIdle /\ MeasureIdle

NonMorphIdle == ViewIdle /\ LineIdle /\ DispatchIdle /\ ChainIdle /\ PlanIdle /\ MeasureIdle

NonLineIdle == ViewIdle /\ MorphIdle /\ DispatchIdle /\ ChainIdle /\ PlanIdle /\ MeasureIdle

NonDispatchIdle == ViewIdle /\ MorphIdle /\ LineIdle /\ ChainIdle /\ PlanIdle /\ MeasureIdle

NonChainIdle == ViewIdle /\ MorphIdle /\ LineIdle /\ DispatchIdle /\ PlanIdle /\ MeasureIdle

NonPlanIdle == ViewIdle /\ MorphIdle /\ LineIdle /\ DispatchIdle /\ ChainIdle /\ MeasureIdle

\* the pairs of consecutive calls whose combined effect is examined
PairedOps == {<<"PermuteDimensions", "PermuteDimensions">>,
              <<"StandardizeStrides", "StandardizeStrides">>,
              <<"SplitComplex", "MergeComplex">>,
              <<"UnexpandSingletonDimensions", "Squeeze">>,
              <<"Crop", "Pad">>}

\* the segments that an image handle still refers to stay alive
Live(m, handles) == [sg \in {h.seg : h \in handles} \cap DOMAIN m |-> m[sg]]

\* a call of `op` on img that leaves the image r.img and the memory m
CallData(op, arg, loc, r, m) ==
  LET paired == hist # <<>> /\ <<hist[1].op, op>> \in PairedOps /\ hist[1].err = ""
  IN  /\ nops < MaxOps
      /\ nops' = nops + 1
      /\ img' = r.img
      /\ mem' = Live(m, {r.img, orig, mask})
      /\ before' = img
      /\ pmem' = mem
      /\ before2' = IF paired THEN before ELSE img
      /\ hist' = <<[op |-> op, arg |-> arg, loc |-> loc, err |-> r.err]>>
                  \o (IF hist = <<>> THEN <<>>
                      ELSE IF paired THEN <<hist[1]>>
                      ELSE <<[op |-> hist[1].op, arg |-> NoArg, loc |-> "", err |-> hist[1].err]>>)
      /\ used' = IF hist # <<>> /\ hist[1].err = "" THEN used \cup {hist[1].op} ELSE used
      /\ orig' = orig
      /\ mask' = mask
      /\ UNCHANGED nonViewVars

\* the last call, and the call before it, succeeded and were these operations
Last(op) == Len(hist) >= 1 /\ hist[1].op = op /\ hist[1].err = ""

Last2(op2, op1) == Len(hist) = 2 /\ Last(op1) /\ hist[2].op = op2 /\ hist[2].err = ""

\* a call that touches no sample
Call(op, arg, loc, r) == CallData(op, arg, loc, r, mem)

\* the sizes a test image is forged with: 1-D and 2-D images
InitSizes == Arrays(1, 1..MaxSize) \cup Arrays(2, 1..MaxSize)

\* the samples of a freshly filled image: all different, some beyond 8 bits
InitValues(im, base) ==
  [a \in Addresses(im) |-> Cast(base + 100 * (a \div SizeOf(im.dt)), im.dt)]

InitMem(im) == [sg \in {im.seg} |-> InitValues(im, 1)]

\* a freshly forged image of one of the data types `dts`, and a handle on it
InitImage(dts, tes) ==
  /\ orig \in {Forged(dt, sz, te, 0, 1) : dt \in dts, sz \in InitSizes, te \in tes}
  /\ img = orig
  /\ mem = InitMem(orig)
  /\ pmem = mem
  /\ before = orig
  /\ before2 = orig
  /\ hist = <<>>
  /\ used = {}
  /\ nops = 0
  /\ mask = RawImage
  /\ NonViewIdle

InitView == InitImage({"UINT16"}, 1..2)

InitPad == InitImage({"UINT16"}, 1..2)

\* a source image `orig` and a destination `img`: another handle on the same
\* image, or a separately forged image of the same sizes
InitData ==
  /\ orig \in {Forged(dt, sz, 1, 0, 1) : dt \in {"UINT16", "BIN"}, sz \in InitSizes}
  /\ img \in {orig, Forged(orig.dt, orig.sizes, orig.telems, 0, 2)}
  /\ mem = [sg \in {orig.seg, img.seg} |->
              IF sg = orig.seg THEN InitValues(orig, 1) ELSE InitValues(img, 7)]
  /\ pmem = mem
  /\ before = img
  /\ before2 = img
  /\ hist = <<>>
  /\ used = {}
  /\ nops = 0
  /\ mask = RawImage
  /\ NonViewIdle

\* the data types an image is converted to
ConvertTypes == {"BIN", "UINT8", "SINT16"}

\* sizes to pad a cropped view to: the sizes before the last crop, and the
\* sizes of the original image
PadSizes == {before.sizes, orig.sizes}

\* every window that fits in the image
AllWindows(im) ==
  {w \in Arrays(ALen(im.sizes), 1..MaxSize) : \A i \in DOMAIN w : w[i] <= im.sizes[i]}

InitComplex == InitImage({"SCOMPLEX", "DCOMPLEX"}, 1..2)

InitCast == InitImage({"UINT8", "UINT16"}, 1..2)

\* the data types an image is reinterpreted as
CastTypes == {"UINT8", "SINT16", "UINT32", "DFLOAT"}

\* arrays of distinct dimension indices, of every length up to the dimensionality
Orders(nd) ==
  {o \in UNION {Arrays(n, 0..(nd - 1)) : n \in 0..nd} : \A i, j \in DOMAIN o : i # j => o[i] # o[j]}

\* window sizes that fit in the image and shrink at most one dimension (a
\* window that shrinks several is reached by cropping one dimension at a time)
Windows(im) ==
  {w \in Arrays(ALen(im.sizes), 1..MaxSize) :
     /\ \A i \in DOMAIN w : w[i] <= im.sizes[i]
     /\ Cardinality({i \in DOMAIN w : w[i] # im.sizes[i]}) <= 1}

DoPermuteDimensions ==
  \E order \in Orders(ALen(img.sizes)) :
    Call("PermuteDimensions", order, "", PermuteDimensions(img, order))

DoSwapDimensions ==
  \E d1, d2 \in 0..(ALen(img.sizes) - 1) :
    d1 <= d2 /\
    Call("SwapDimensions", [i \in 0..1 |-> IF i = 0 THEN d1 ELSE d2], "",
         SwapDimensions(img, d1, d2))

DoMirror ==
  \E d \in 0..(ALen(img.sizes) - 1) :
    Call("Mirror", AMake(1, d), "", Mirror(img, d))

DoCrop ==
  \E w \in Windows(img), loc \in CropLocations :
    Call("Crop", w, loc, Crop(img, w, loc))

DoCropWindow ==
  \E w \in AllWindows(img), loc \in CropLocations :
    Call("Crop", w, loc, Crop(img, w, loc))

\* Crop to any sizes, also sizes that the image does not have
DoCropRequest ==
  \E w \in Arrays(ALen(img.sizes), 1..MaxSize), loc \in CropLocations :
    Call("Crop", w, loc, Crop(img, w, loc))

DoStandardizeStrides ==
  Call("StandardizeStrides", NoArg, "", StandardizeStrides(img))

DoAddSingleton ==
  \E d \in 0..ALen(img.sizes) :
    /\ ALen(img.sizes) <= ALen(orig.sizes)
    /\ Call("AddSingleton", AMake(1, d), "", AddSingleton(img, d))

DoExpandSingletonDimension ==
  \E d \in 0..(ALen(img.sizes) - 1), sz \in 2..MaxSize :
    Call("ExpandSingletonDimension", [i \in 0..1 |-> IF i = 0 THEN d ELSE sz], "",
         ExpandSingletonDimension(img, d, sz))

DoExpandSingletonTensor ==
  \E sz \in 2..3 :
    Call("ExpandSingletonTensor", AMake(1, sz), "", ExpandSingletonTensor(img, sz))

DoExpandDimensionality ==
  \E d \in 0..(ALen(orig.sizes) + 1) :
    Call("ExpandDimensionality", AMake(1, d), "", ExpandDimensionality(img, d))

DoUnexpandSingletonDimensions ==
  Call("UnexpandSingletonDimensions", NoArg, "", UnexpandSingletonDimensions(img))

DoSqueeze ==
  Call("Squeeze", NoArg, "", Squeeze(img))

DoSplitComplex ==
  \E d \in 0..ALen(img.sizes) :
    Call("SplitComplex", AMake(1, d), "", SplitComplex(img, d))

DoMergeComplex ==
  \E d \in 0..(ALen(img.sizes) - 1) :
    Call("MergeComplex", AMake(1, d), "", MergeComplex(img, d))

DoReinterpretCast ==
  \E dt \in CastTypes :
    Call("ReinterpretCast", NoArg, dt, ReinterpretCast(img, dt))

DoPad ==
  \E sizes \in PadSizes, loc \in CropLocations :
    LET r == Pad(img, sizes, 0, loc, mem)
    IN  CallData("Pad", sizes, loc, r, r.mem)

DoProtect ==
  /\ ~img.prot
  /\ Call("Protect", NoArg, "", Ok([img EXCEPT !.prot = TRUE]))

DoCopy ==
  LET r == Copy(img, orig, mem)
  IN  CallData("Copy", NoArg, "", r, r.mem)

DoConvert ==
  \E dt \in ConvertTypes :
    LET r == Convert(img, dt, mem, IsShared(img, {orig}))
    IN  CallData("Convert", NoArg, dt, r, r.mem)

\* reordering, mirroring and cropping views, and their standard form
NextView ==
  \/ DoPermuteDimensions
  \/ DoSwapDimensions
  \/ DoMirror
  \/ DoCrop
  \/ DoStandardizeStrides

SpecView == InitView /\ [][NextView]_vars

\* singleton dimensions: adding, expanding, unexpanding, squeezing
NextSingleton ==
  \/ DoAddSingleton
  \/ DoExpandDimensionality
  \/ DoExpandSingletonDimension
  \/ DoExpandSingletonTensor
  \/ DoUnexpandSingletonDimensions
  \/ DoSqueeze
  \/ DoSwapDimensions
  \/ DoMirror
  \/ DoStandardizeStrides

SpecSingleton == InitView /\ [][NextSingleton]_vars

\* complex samples split into a dimension and merged back
NextComplex ==
  \/ DoSplitComplex
  \/ DoMergeComplex
  \/ DoSwapDimensions
  \/ DoMirror

SpecComplex == InitComplex /\ [][NextComplex]_vars

\* reinterpreting the samples of a view as another data type
NextCast ==
  \/ DoReinterpretCast
  \/ DoMirror
  \/ DoCrop

SpecCast == InitCast /\ [][NextCast]_vars

\* Pad returns a new image: the view that was padded is left behind
Padded == hist # <<>> /\ hist[1].op = "Pad"

\* cropping a view and padding the cropped view
NextPad ==
  \/ ~Padded /\ DoCropWindow
  \/ Last("Crop") /\ DoPad
  \/ hist = <<>> /\ DoMirror

SpecPad == InitPad /\ [][NextPad]_vars

\* views cropped to requested sizes of any kind
NextCrop ==
  \/ DoCropRequest
  \/ DoMirror
  \/ DoSwapDimensions

SpecCrop == InitView /\ [][NextCrop]_vars

\* the destination has been copied into or converted
Written == hist # <<>> /\ hist[1].op \in {"Copy", "Convert"}

\* a destination view is derived, possibly protected, and then the source
\* image is copied into it or it is converted
NextData ==
  \/ ~Written /\ DoCopy
  \/ ~Written /\ DoConvert
  \/ ~Written /\ DoProtect
  \/ ~Written /\ DoMirror
  \/ ~Written /\ DoCrop

SpecData == InitData /\ [][NextData]_vars

\* a scalar image of 1-byte samples, whose dimensions can become the tensor
InitTensorCast == InitImage({"UINT8"}, {1})

DoSpatialToTensor ==
  \E d \in 0..(ALen(img.sizes) - 1), rows \in {0, 2}, cols \in {0, 1} :
    Call("SpatialToTensor", [i \in 0..2 |-> IF i = 0 THEN d ELSE IF i = 1 THEN rows ELSE cols],
         "", SpatialToTensor(img, d, rows, cols))

\* reinterpreting the samples of a tensor image whose tensor dimension was a
\* spatial dimension (the tensor stride is then not 1)
NextTensorCast ==
  \/ DoSpatialToTensor
  \/ DoCrop
  \/ DoReinterpretCast

SpecTensorCast == InitTensorCast /\ [][NextTensorCast]_vars

\* the sizes of the images of a masked copy: 1-D images, and 2-D images of
\* two rows
CopyToSizes == Arrays(1, 1..MaxSize) \cup {sz \in Arrays(2, 1..MaxSize) : sz[1] = 2}

\* a source image `orig`, a destination `img` in a segment of its own, and a
\* binary mask of the sizes of the destination with any pixels set
InitCopyTo ==
  /\ orig \in {Forged("UINT16", sz, te, 0, 1) : sz \in CopyToSizes, te \in 1..2}
  /\ img \in {Forged(dt, sz, te, 0, 2) : dt \in {"UINT16", "UINT8"}, sz \in CopyToSizes, te \in 1..2}
  /\ mask = Forged("BIN", img.sizes, 1, 0, 3)
  /\ \E bits \in [Addresses(mask) -> {0, 1}] :
       mem = [sg \in 1..3 |-> IF sg = 1 THEN InitValues(orig, 1)
                              ELSE IF sg = 2 THEN InitValues(img, 7)
                              ELSE bits]
  /\ pmem = mem
  /\ before = img
  /\ before2 = img
  /\ hist = <<>>
  /\ used = {}
  /\ nops = 0
  /\ NonViewIdle

DoCopyTo ==
  LET r == CopyTo(orig, img, mask, mem)
  IN  CallData("CopyTo", NoArg, "", r, r.mem)

\* the masked copy has been made
CopiedTo == hist # <<>> /\ hist[1].op = "CopyTo"

\* the destination is mirrored or not, and the source is copied into the
\* pixels of the destination that the mask selects
NextCopyTo ==
  \/ ~CopiedTo /\ DoCopyTo
  \/ hist = <<>> /\ DoMirror

SpecCopyTo == InitCopyTo /\ [][NextCopyTo]_vars

(* ------------------------------------------------------------------ *)
(* Morphology with custom flat structuring elements: the image         *)
(* `picture` is derived from the test image `pictureIn` by calls of    *)
(* BasicMorphology with the structuring element `se`.                  *)
(*   pictureBefore   the image before the last call                    *)
(*   calls           the calls made, in order                          *)
(* ------------------------------------------------------------------ *)
\* a kernel image of these sizes, given by its rows (a string per row, the
\* set pixels marked 1), not mirrored
KernelOf(rows) ==
  [sizes |-> [i \in 0..1 |-> IF i = 0 THEN Len(rows[1]) ELSE Len(rows)],
   pixels |-> {<<x, y>> \in (0..(Len(rows[1]) - 1)) \X (0..(Len(rows) - 1)) : rows[y + 1][x + 1] = 1},
   mirror |-> FALSE]

\* the structuring elements: a line of even length, a cross, an L, a
\* two-row element that is not symmetric, an ellipse, and a line with a gap
Kernels ==
  {KernelOf(<< <<1, 1, 1, 1>> >>),
   KernelOf(<< <<0, 1, 0>>, <<1, 1, 1>>, <<0, 1, 0>> >>),
   KernelOf(<< <<1, 1>>, <<1, 0>> >>),
   KernelOf(<< <<1, 1, 1, 1, 1>>, <<1, 1, 1, 1, 0>> >>),
   KernelOf(<< <<0, 1, 1, 1, 0>>, <<1, 1, 1, 1, 1>>, <<0, 1, 1, 1, 0>> >>),
   KernelOf(<< <<1, 1, 1, 1, 0, 1, 1, 1, 1>> >>)}

\* all binary images of one line of up to MaxLine + 2 pixels, and of two
\* lines of up to MaxLine - 1 pixels
BinaryImages ==
  UNION {LET sizes == [i \in 0..1 |-> IF i = 0 THEN sz[1] ELSE sz[2]]
         IN  {[dt |-> "BIN", sizes |-> sizes, pix |-> f] : f \in [Points(sizes, NoBoundary) -> {0, 1}]} :
         sz \in ((1..(MaxLine + 2)) \X {1}) \cup ((1..(MaxLine - 1)) \X {2})}

\* the sizes of the images with one non-zero pixel, and its values
SpikeSizes == [i \in 0..1 |-> IF i = 0 THEN 9 ELSE 5]

SpikeValues == {9}

\* images that are 0 but for one pixel: dip::Image in( sizes, 1, DT_UINT8 );
\* in = 0; in.At( x, y ) = pval
SpikeImages ==
  {[dt |-> "UINT8", sizes |-> SpikeSizes,
    pix |-> [p \in Points(SpikeSizes, NoBoundary) |-> IF p = at THEN pval ELSE 0]] :
     at \in Points(SpikeSizes, NoBoundary), pval \in SpikeValues}

InitMorphology ==
  /\ pictureIn \in BinaryImages \cup SpikeImages
  /\ picture = pictureIn
  /\ pictureBefore = pictureIn
  /\ se \in Kernels
  /\ calls = <<>>
  /\ NonMorphIdle

DoBasicMorphology(operation) ==
  /\ picture' = BasicMorphology(picture, se, operation)
  /\ pictureBefore' = picture
  /\ calls' = Append(calls, operation)
  /\ UNCHANGED <<pictureIn, se>>
  /\ UNCHANGED nonMorphVars

\* se.Mirror()
DoMirrorSE ==
  /\ se' = MirrorKernel(se)
  /\ calls' = Append(calls, "Mirror")
  /\ UNCHANGED <<picture, pictureBefore, pictureIn>>
  /\ UNCHANGED nonMorphVars

\* a dilation followed by the erosion with the mirrored element, and a
\* closing or an opening applied twice
NextMorphology ==
  \/ calls = <<>> /\ \E operation \in {"DILATION", "EROSION", "CLOSING", "OPENING"} :
                        DoBasicMorphology(operation)
  \/ calls = <<"DILATION">> /\ DoMirrorSE
  \/ calls = <<"DILATION", "Mirror">> /\ DoBasicMorphology("EROSION")
  \/ calls = <<"CLOSING">> /\ DoBasicMorphology("CLOSING")
  \/ calls = <<"OPENING">> /\ DoBasicMorphology("OPENING")

SpecMorphology == InitMorphology /\ [][NextMorphology]_vars

(* ------------------------------------------------------------------ *)
(* The separable framework running the parabolic line filter: the      *)
(* lines of the image are handed to the threads, and each thread calls *)
(* Filter for one line at a time.                                      *)
(*   lineIn       the lines of the input image, numbered from 0        *)
(*   lineOut      the lines of the output image                        *)
(*   buffers      buffers_: the buffer of every thread, from 0         *)
(*   work         for every thread the line whose Filter call is       *)
(*                between its two passes, or -1                        *)
(*   taken        the lines handed to a thread                         *)
(*   filtered     the lines whose Filter call has returned             *)
(*   filterParam  the parameter sigma and the polarity of the filter   *)
(* ------------------------------------------------------------------ *)
\* the lines of up to n samples with the values vs
LinesUpTo(n, vs) == UNION {[1..k -> vs] : k \in 1..n}

\* sample values, in quarters
SampleValues == {0, 2, 5, 9}

ParabolicLines == LinesUpTo(MaxLine + 1, SampleValues)

\* lines of different lengths for the threads
ThreadLines == LinesUpTo(MaxLine - 1, {0, 9}) \ LinesUpTo(1, {0, 9})

Threads == DOMAIN buffers

\* SetNumberOfThreads( threads ) and the state before the first line is
\* handed out
InitLines(lines, threads) ==
  /\ lineIn \in lines
  /\ lineOut = [l \in DOMAIN lineIn |-> [k \in 1..Len(lineIn[l]) |-> 0]]
  /\ \E n \in threads : buffers = [t \in 0..(n - 1) |-> <<>>]
  /\ work = [t \in Threads |-> 0 - 1]
  /\ taken = {}
  /\ filtered = {}
  /\ filterParam \in [sigma : {1, 2}, dilation : BOOLEAN]
  /\ NonLineIdle

\* one line, one thread
InitParabolic == InitLines({[l \in {0} |-> line] : line \in ParabolicLines}, {1})

\* two lines, one or two threads
InitThreads == InitLines([0..1 -> ThreadLines], {1, 2})

\* thread t is handed line l and runs Filter up to the end of the first pass
FilterFirstPass(t, l) ==
  /\ work[t] < 0
  /\ l \notin taken
  /\ taken' = taken \cup {l}
  /\ work' = [work EXCEPT ![t] = l]
  /\ buffers' = [buffers EXCEPT ![BufferOf(t)] =
                   FilterLeftToRight(lineIn[l], buffers[BufferOf(t)],
                                     filterParam.sigma, filterParam.dilation)]
  /\ UNCHANGED <<lineIn, lineOut, filtered, filterParam>>
  /\ UNCHANGED nonLineVars

\* thread t runs the second pass of Filter and returns
FilterSecondPass(t) ==
  /\ work[t] >= 0
  /\ lineOut' = [lineOut EXCEPT ![work[t]] =
                   FilterRightToLeft(buffers[BufferOf(t)], lineOut[work[t]],
                                     filterParam.sigma, filterParam.dilation)]
  /\ filtered' = filtered \cup {work[t]}
  /\ work' = [work EXCEPT ![t] = 0 - 1]
  /\ UNCHANGED <<lineIn, buffers, taken, filterParam>>
  /\ UNCHANGED nonLineVars

NextLines ==
  \/ \E t \in Threads, l \in DOMAIN lineIn : FilterFirstPass(t, l)
  \/ \E t \in Threads : FilterSecondPass(t)

SpecParabolic == InitParabolic /\ [][NextLines]_vars

SpecThreads == InitThreads /\ [][NextLines]_vars

(* ------------------------------------------------------------------ *)
(* Dispatch on the shape of the structuring element: BasicMorphology   *)
(* is called with a diamond or elliptic structuring element.           *)
(*   seShape    the shape of the structuring element                   *)
(*   seParams   its sizes, one per image dimension, in quarters        *)
(*   route      the filters called, in order (empty before the call)   *)
(* ------------------------------------------------------------------ *)
\* the sizes 1, 2, 2.5, 3, 4, 4.25, 5, 7, 9 and 11
QuarterSizes == {4, 8, 10, 12, 16, 17, 20, 28, 36, 44}

InitDispatch ==
  /\ seShape \in {"elliptic", "diamond"}
  /\ \E n \in 1..MaxDims : seParams \in Arrays(n, QuarterSizes)
  /\ route = <<>>
  /\ NonDispatchIdle

\* case StructuringElement::ShapeCode::ELLIPTIC
DoEllipticMorphology ==
  /\ route = <<>>
  /\ seShape = "elliptic"
  /\ route' = EllipticMorphology(seParams)
  /\ UNCHANGED <<seShape, seParams>>
  /\ UNCHANGED nonDispatchVars

\* case StructuringElement::ShapeCode::DIAMOND
DoDiamondMorphology ==
  /\ route = <<>>
  /\ seShape = "diamond"
  /\ route' = DiamondMorphology(seParams)
  /\ UNCHANGED <<seShape, seParams>>
  /\ UNCHANGED nonDispatchVars

NextDispatch == DoEllipticMorphology \/ DoDiamondMorphology

SpecDispatch == InitDispatch /\ [][NextDispatch]_vars

(* ------------------------------------------------------------------ *)
(* Chain codes: a 4-connected chain code `chain` is converted, and the *)
(* boundary of the object `object` is traced and made a polygon.       *)
(*   chain      the 4-connected chain code                             *)
(*   converted  ConvertTo8Connected of chain (empty before the call)   *)
(*   chain8     the 8-connected chain code of the object               *)
(*   polygon4   Polygon of chain (empty before the call)               *)
(*   polygon8   Polygon of chain8 (empty before the call)              *)
(* ------------------------------------------------------------------ *)
Codes4 == {Code(c, b) : c \in 0..3, b \in BOOLEAN}

ChainStarts == {<<0, 0>>, <<2, 1>>}

\* any sequence of up to MaxLine 4-connected codes
InitConvert ==
  /\ chain \in [codes : UNION {[1..n -> Codes4] : n \in 0..MaxLine},
                start : ChainStarts, is8connected : {FALSE}]
  /\ object = {} /\ chain8 = <<>> /\ converted = <<>>
  /\ polygon4 = <<>> /\ polygon8 = <<>>
  /\ NonChainIdle

DoConvertTo8Connected ==
  /\ converted = <<>>
  /\ converted' = ConvertTo8Connected(chain)
  /\ UNCHANGED <<object, chain, chain8, polygon4, polygon8>>
  /\ UNCHANGED nonChainVars

NextConvert == DoConvertTo8Connected

SpecConvert == InitConvert /\ [][NextConvert]_vars

Grid == (0..(MaxSize - 1)) \X (0..(MaxSize - 1))

\* the pixels of the object that can be reached from the pixels of seen by
\* steps of deltas4 inside the object
RECURSIVE Reach4(_, _)
Reach4(object2, seen) ==
  LET more == {p \in object2 : \E q \in seen, c \in 1..4 : p = Plus(q, deltas4[c])}
  IN  IF more \subseteq seen THEN seen ELSE Reach4(object2, seen \cup more)

\* the objects: the 4-connected sets of pixels of the grid
Objects == {o \in SUBSET Grid : o # {} /\ Reach4(o, {FirstPixel(o)}) = o}

\* the boundary of an object is traced with both connectivities
InitPolygon ==
  /\ object \in Objects
  /\ chain = GetSingleChainCode(object, 1)
  /\ chain8 = GetSingleChainCode(object, 2)
  /\ converted = <<>>
  /\ polygon4 = <<>> /\ polygon8 = <<>>
  /\ NonChainIdle

DoPolygon4 ==
  /\ polygon4 = <<>>
  /\ polygon4' = Polygon(chain)
  /\ UNCHANGED <<object, chain, chain8, converted, polygon8>>
  /\ UNCHANGED nonChainVars

DoPolygon8 ==
  /\ polygon8 = <<>>
  /\ polygon8' = Polygon(chain8)
  /\ UNCHANGED <<object, chain, chain8, converted, polygon4>>
  /\ UNCHANGED nonChainVars

NextPolygon == DoPolygon4 \/ DoPolygon8 \/ DoConvertTo8Connected

SpecPolygon == InitPolygon /\ [][NextPolygon]_vars

(* ------------------------------------------------------------------ *)
(* The cache of DFT plans and the dip::DFT objects that use it.        *)
(*   cache           the map of PlanCache                              *)
(*   access_counter  the counter of PlanCache                          *)
(*   dfts            the DFT objects, each a record [plan_, nfft_]:    *)
(*                   plan_ is the address it holds, or 0 (nullptr)     *)
(*   spared          the last call deleted a plan and left one in the  *)
(*                   cache that is in use and was accessed earlier     *)
(* ------------------------------------------------------------------ *)
\* the transform lengths: more than the cache holds before it deletes
Lengths == 1..(maxSize + 1)

\* two DFT objects
Dfts == 1..2

InitPlans ==
  /\ cache = <<>>
  /\ access_counter = 0
  /\ dfts = [d \in Dfts |-> [plan_ |-> 0, nfft_ |-> 0]]
  /\ spared = FALSE
  /\ NonPlanIdle

\* the cache after DFT::Destroy of the object d
Destroyed(d) ==
  IF dfts[d].plan_ # 0 THEN PlanCacheFree(cache, dfts[d].nfft_) ELSE cache

\* DFT::Initialize( size ): Destroy, then the plan of the length is requested
Initialize(d, size) ==
  \E r \in PlanCache(Destroyed(d), access_counter, size) :
    /\ cache' = r.entries
    /\ access_counter' = r.access_counter
    /\ dfts' = [dfts EXCEPT ![d] = [plan_ |-> r.plan, nfft_ |-> size]]
    /\ spared' = \E len \in DOMAIN Destroyed(d) \ DOMAIN r.entries, other \in DOMAIN r.entries :
                    /\ other \in DOMAIN Destroyed(d)
                    /\ Destroyed(d)[other].use_count > 0
                    /\ Destroyed(d)[other].last_access < Destroyed(d)[len].last_access
    /\ UNCHANGED nonPlanVars

\* DFT::Destroy
Destroy(d) ==
  /\ dfts[d].plan_ # 0
  /\ cache' = Destroyed(d)
  /\ dfts' = [dfts EXCEPT ![d].plan_ = 0]
  /\ spared' = FALSE
  /\ UNCHANGED access_counter
  /\ UNCHANGED nonPlanVars

NextPlans ==
  \/ \E d \in Dfts, size \in Lengths : Initialize(d, size)
  \/ \E d \in Dfts : Destroy(d)

SpecPlans == InitPlans /\ [][NextPlans]_vars

\* images that can be turned: 2-D images, and 3-D images of small sizes
InitRotate ==
  /\ orig \in {Forged("UINT16", sz, 1, 0, 1) :
                 sz \in Arrays(2, 2..MaxSize) \cup Arrays(3, 1..2)}
  /\ img = orig
  /\ mem = InitMem(orig)
  /\ pmem = mem
  /\ before = orig
  /\ before2 = orig
  /\ hist = <<>>
  /\ used = {}
  /\ nops = 0
  /\ mask = RawImage
  /\ NonViewIdle

\* the numbers of quarter turns asked for, negative ones included
Turns == (0 - MaxTurns)..MaxTurns

\* at most two turns in a row
DoRotation90 ==
  \E n \in Turns, d1, d2 \in 0..(ALen(img.sizes) - 1) :
    ~(Len(hist) = 2 /\ hist[1].op = "Rotation90" /\ hist[2].op = "Rotation90") /\
    Call("Rotation90", [i \in 0..2 |-> IF i = 0 THEN n ELSE IF i = 1 THEN d1 ELSE d2], "",
         Rotation90(img, n, d1, d2))

\* a view is derived by mirroring and cropping, and then turned
NextRotate ==
  \/ DoRotation90
  \/ hist = <<>> /\ DoMirror
  \/ hist = <<>> /\ DoCrop

SpecRotate == InitRotate /\ [][NextRotate]_vars

\* the data types of the images whose bytes are swapped
SwapTypes == {"UINT8", "SINT16", "SFLOAT", "DFLOAT", "SCOMPLEX", "DCOMPLEX"}

\* the sizes of the images whose bytes are swapped
SwapSizes == Arrays(1, 1..MaxSize) \cup Arrays(2, 1..2)

\* a freshly forged image in a data segment of bytes that all differ
InitSwap ==
  /\ orig \in {Forged(dt, sz, te, 0, 1) : dt \in SwapTypes, sz \in SwapSizes, te \in 1..2}
  /\ img = orig
  /\ mem = [sg \in {1} |->
              [b \in 0..(SizeOf(orig.dt) * orig.telems * AProd(orig.sizes, ALen(orig.sizes)) - 1)
                 |-> b + 1]]
  /\ pmem = mem
  /\ before = orig
  /\ before2 = orig
  /\ hist = <<>>
  /\ used = {}
  /\ nops = 0
  /\ mask = RawImage
  /\ NonViewIdle

DoSwapBytesInSample ==
  LET r == SwapBytesInSample(img, mem)
  IN  CallData("SwapBytesInSample", NoArg, "", r, r.mem)

\* a view is derived and the bytes of its samples are swapped
NextSwap ==
  \/ DoSwapBytesInSample
  \/ DoMirror
  \/ DoSwapDimensions
  \/ DoCrop

SpecSwap == InitSwap /\ [][NextSwap]_vars

\* a source image `orig`, a binary mask of its sizes with any pixels set, and
\* a destination `img`: a forged 1-D image in a segment of its own, or a raw
\* image
InitCopyView ==
  /\ orig \in {Forged("UINT16", sz, te, 0, 1) : sz \in Arrays(1, 1..MaxSize), te \in 1..2}
  /\ img \in {Forged(dt, sz, te, 0, 2) :
                dt \in {"UINT16", "UINT8"}, sz \in Arrays(1, 1..MaxSize), te \in 1..2}
             \cup {RawImage}
  /\ mask = Forged("BIN", orig.sizes, 1, 0, 3)
  /\ \E bits \in [Addresses(mask) -> {0, 1}] :
       mem = [sg \in (IF IsForged(img) THEN 1..3 ELSE {1, 3}) |->
                IF sg = 1 THEN InitValues(orig, 1)
                ELSE IF sg = 2 THEN InitValues(img, 7)
                ELSE bits]
  /\ pmem = mem
  /\ before = img
  /\ before2 = img
  /\ hist = <<>>
  /\ used = {}
  /\ nops = 0
  /\ NonViewIdle

DoCopyView ==
  LET r == CopyView(img, orig, mask, mem)
  IN  CallData("CopyView", NoArg, "", r, r.mem)

\* the copy from the view has been made
CopiedView == hist # <<>> /\ hist[1].op = "CopyView"

\* the destination is protected or not, mirrored or not, and the pixels of
\* the source that the mask selects are copied into it
NextCopyView ==
  \/ ~CopiedView /\ DoCopyView
  \/ ~CopiedView /\ IsForged(img) /\ DoProtect
  \/ hist = <<>> /\ IsForged(img) /\ DoMirror

SpecCopyView == InitCopyView /\ [][NextCopyView]_vars

(* ------------------------------------------------------------------ *)
(* The two methods of the flat line filter on one line: `pictureIn` is *)
(* the input buffer (the line with its boundary extension), `se` the   *)
(* structuring element, and after the call `picture` holds the output  *)
(* line of the run-length method and that of the brute-force method.   *)
(* ------------------------------------------------------------------ *)
\* the length of the filtered line
FlatLength == MaxLine - 1

\* structuring elements of two rows of four pixels: a run in one row or in
\* both, of equal and of different lengths (the average run length is 4 or
\* more for the first five), and elements with a gap (two runs in a row)
FlatKernels ==
  {KernelOf(<< <<0, 0, 0, 0>>, <<1, 1, 1, 1>> >>),
   KernelOf(<< <<1, 1, 1, 1>>, <<1, 1, 1, 1>> >>),
   KernelOf(<< <<1, 1, 1, 0>>, <<1, 1, 1, 1>> >>),
   KernelOf(<< <<1, 1, 1, 1>>, <<0, 1, 1, 1>> >>),
   KernelOf(<< <<0, 1, 1, 1>>, <<1, 1, 1, 1>> >>),
   KernelOf(<< <<1, 1, 0, 0>>, <<0, 1, 1, 1>> >>),
   KernelOf(<< <<1, 0, 1, 1>>, <<1, 1, 0, 1>> >>),
   KernelOf(<< <<0, 0, 0, 1>>, <<1, 0, 0, 0>> >>),
   KernelOf(<< <<0, 0, 0, 0>>, <<0, 1, 1, 0>> >>)}

\* the pixels of the input buffer that the filter of a line of this length
\* can read: the line y = 0 and the line above it, with two pixels before
\* and one after the line
FlatPoints == {<<x, y>> : x \in (0 - 2)..FlatLength, y \in (0 - 1)..0}

\* the input buffers: all binary ones, and all with up to three pixels that
\* differ from a background of 0 or of 2, with values in 0..2
FlatInputs ==
  [FlatPoints -> {0, 1}]
  \cup {[p \in FlatPoints |-> IF p \in DOMAIN marks THEN marks[p] ELSE background] :
          marks \in UNION {[ps -> 0..2] : ps \in {qs \in SUBSET FlatPoints : Cardinality(qs) <= 3}},
          background \in {0, 2}}

InitFlatLine ==
  /\ \E f \in FlatInputs :
       pictureIn = [dt |-> "UINT8", sizes |-> [i \in 0..1 |-> IF i = 0 THEN FlatLength ELSE 1],
                    pix |-> f]
  /\ se \in FlatKernels
  /\ picture = <<>>
  /\ pictureBefore = <<>>
  /\ calls = <<>>
  /\ NonMorphIdle

\* the line is filtered by a filter that uses the run-length method and by
\* one that uses the brute-force method
DoFlatLine(operation) ==
  /\ calls = <<>>
  /\ picture' = [runLength |-> RunLengthLine(pictureIn.pix, pictureIn.dt, 0, FlatLength,
                                             PixelTable(se).runs, operation = "DILATION",
                                             0, 0, 0 - 1, <<>>),
                 bruteForce |-> BruteForceLine(pictureIn.pix, 0, FlatLength, PixelTable(se),
                                               operation = "DILATION")]
  /\ calls' = <<operation>>
  /\ UNCHANGED <<pictureBefore, pictureIn, se>>
  /\ UNCHANGED nonMorphVars

NextFlatLine ==
  \/ DoFlatLine("DILATION")
  \/ DoFlatLine("EROSION")

SpecFlatLine == InitFlatLine /\ [][NextFlatLine]_vars

(* ------------------------------------------------------------------ *)
(* The GreySize feature: after Initialize, image lines are scanned.    *)
(*   data_, nTensor_, scale_   the members of the feature              *)
(*   objectIndices             the map from object ID to object index  *)
(*   scanned                   the number of lines scanned, and for    *)
(*                             each object index and channel the sum   *)
(*                             of the grey values of the scanned       *)
(*                             pixels with the object's ID             *)
(* ------------------------------------------------------------------ *)
\* the maps from the object IDs 1..nObjects to the indices 0..nObjects-1:
\* in the order of the IDs, and in the opposite order
IndexMaps(nObjects) ==
  {[id \in 1..nObjects |-> id - 1], [id \in 1..nObjects |-> nObjects - id]}

\* Initialize( label, grey, nObjects ) for a grey image of one or two tensor
\* elements and a pixel area of 1 or 3
InitGreySize ==
  /\ nTensor_ \in 1..2
  /\ \E nObjects \in 1..MaxDims :
       /\ data_ = FeatureData(nObjects, nTensor_)
       /\ objectIndices \in IndexMaps(nObjects)
  /\ scale_ \in {1, 3}
  /\ scanned = [lines |-> 0,
                sums |-> [idx \in 0..(ALen(data_) \div nTensor_ - 1) |-> AMake(nTensor_, 0)]]
  /\ NonMeasureIdle

\* the pixels of a line: a label (0: background, or an object ID, or an ID
\* that is not measured) and a grey value per channel
GreyPixels ==
  {[label |-> l, grey |-> g] :
     l \in 0..(ALen(data_) \div nTensor_ + 1),
     g \in {[c \in 0..(nTensor_ - 1) |-> c + 1], [c \in 0..(nTensor_ - 1) |-> 2 - c]}}

\* the sums with the pixels of a line added
RECURSIVE AddLine(_, _, _)
AddLine(sums, line, k) ==
  IF k > Len(line) THEN sums
  ELSE AddLine(IF line[k].label \in DOMAIN objectIndices
               THEN [sums EXCEPT ![objectIndices[line[k].label]] =
                       [c \in DOMAIN @ |-> @[c] + line[k].grey[c]]]
               ELSE sums, line, k + 1)

DoScanLine ==
  \E n \in 1..2 : \E line \in [1..n -> GreyPixels] :
    /\ scanned.lines < MaxOps
    /\ data_' = ScanLine(data_, nTensor_, objectIndices, line)
    /\ scanned' = [lines |-> scanned.lines + 1, sums |-> AddLine(scanned.sums, line, 1)]
    /\ UNCHANGED <<nTensor_, scale_, objectIndices>>
    /\ UNCHANGED nonMeasureVars

NextGreySize == DoScanLine

SpecGreySize == InitGreySize /\ [][NextGreySize]_vars

(* ----------------------------------------------------------------------- *)
(* The elemental 2-D diamond filter on the lines of one image:             *)
(* `pictureIn` is the image, `se` the line filter that                     *)
(* Elemental2DDiamondMorphology constructs together with the processing    *)
(* dimension of the scan, `calls` the lines filtered so far,               *)
(* `pictureBefore` the parameters of the last call of Filter and `picture` *)
(* what that call read and wrote.                                          *)
(* ----------------------------------------------------------------------- *)
DiamondSizes == {s \in Arrays(3, 1..MaxSize) : s[2] <= 2}

Coordinates(sizes) == {p \in Arrays(3, 0..(MaxSize - 1)) : \A d \in 0..2 : p[d] < sizes[d]}

\* one sample that differs from all the others: a peak for the dilation and
\* a pit for the erosion
DiamondImages(polarity) ==
  {[sizes |-> s,
    pix |-> [p \in Coordinates(s) |-> IF (p = q) = (polarity = "DILATION") THEN 1 ELSE 0]]
     : <<s, q>> \in {sq \in DiamondSizes \X Arrays(3, 0..(MaxSize - 1)) : sq[2] \in Coordinates(sq[1])}}

InitDiamond ==
  /\ \E polarity \in {"DILATION", "EROSION"}, dims \in {<<0, 1>>, <<0, 2>>, <<1, 2>>} :
       /\ pictureIn \in DiamondImages(polarity)
       /\ \E dimension \in 0..2 :
            se = [lineFilter |-> Elemental2DDiamondMorphologyLineFilter(pictureIn, dims[1], dims[2], polarity),
                  dimension |-> dimension]
  /\ picture = <<>>
  /\ pictureBefore = <<>>
  /\ calls = <<>>
  /\ NonMorphIdle

\* the lines of the image along the processing dimension, by their first pixel
ImageLines(im, dimension) == {p \in Coordinates(im.sizes) : p[dimension] = 0}

LineIndex(p, sizes) == p[0] + sizes[0] * (p[1] + sizes[1] * p[2])

\* the scan calls Filter on the next line of the image; a read outside the
\* image yields any value
DoFilter ==
  \E position \in ImageLines(pictureIn, se.dimension), outside \in {0, 1} :
    LET done == {calls[i] : i \in 1..Len(calls)}
        params == [dimension |-> se.dimension, position |-> position,
                   bufferLength |-> pictureIn.sizes[se.dimension]]
    IN  /\ position \notin done
        /\ \A p \in ImageLines(pictureIn, se.dimension) \ done :
             LineIndex(position, pictureIn.sizes) <= LineIndex(p, pictureIn.sizes)
        /\ picture' = Elemental2DDiamondFilter(se.lineFilter, params, pictureIn, outside)
        /\ pictureBefore' = params
        /\ calls' = Append(calls, position)
        /\ UNCHANGED <<pictureIn, se>>
        /\ UNCHANGED nonMorphVars

NextDiamond == DoFilter

SpecDiamond == InitDiamond /\ [][NextDiamond]_vars

(* ------------------------------------------------------------------ *)
(* Properties of the view operations                                   *)
(* ------------------------------------------------------------------ *)
\* the operations that produced `img` from `orig`
ProducedBy == used \cup (IF hist # <<>> /\ hist[1].err = "" THEN {hist[1].op} ELSE {})

SameGeometry(a, b) == a.sizes = b.sizes /\ a.strides = b.strides /\ a.origin = b.origin

IsPermutation(order, nd) ==
  ALen(order) = nd /\ \A d \in 0..(nd - 1) : \E i \in DOMAIN order : order[i] = d

Inverse(order) == [d \in DOMAIN order |-> CHOOSE i \in DOMAIN order : order[i] = d]

\* C1: PermuteDimensions(order), for a permutation `order` of all the
\* dimensions, followed by PermuteDimensions(inverse of order), yields
\* exactly the sizes, strides and origin the image had before the two calls.
C1_PermuteInverse ==
  ( /\ Last2("PermuteDimensions", "PermuteDimensions")
    /\ IsPermutation(hist[2].arg, ALen(before2.sizes))
    /\ hist[1].arg = Inverse(hist[2].arg) )
  => SameGeometry(img, before2)

\* a mirrored image with two different sizes went through a non-identity
\* permutation and its inverse
C1_Witness ==
  /\ Last2("PermuteDimensions", "PermuteDimensions")
  /\ IsPermutation(hist[2].arg, ALen(before2.sizes))
  /\ hist[1].arg = Inverse(hist[2].arg)
  /\ ALen(before2.sizes) = 2
  /\ hist[2].arg[0] = 1
  /\ before2.sizes[0] # before2.sizes[1]
  /\ \E d \in DOMAIN before2.strides : before2.strides[d] < 0
  /\ ~SameGeometry(before, before2)

\* C2: StandardizeStrides is idempotent: a second application leaves sizes,
\* strides, tensor stride (and tensor elements) and origin as the first
\* application left them.
C2_StandardizeIdempotent ==
  Last2("StandardizeStrides", "StandardizeStrides")
  => /\ SameGeometry(img, before)
     /\ img.tstride = before.tstride
     /\ img.telems = before.telems

\* the first application changed the image (it was mirrored, reordered, had a
\* singleton or expanded dimension, or an expanded tensor), the second ran
C2_Witness ==
  /\ Last2("StandardizeStrides", "StandardizeStrides")
  /\ \/ \E d \in DOMAIN before2.strides : before2.strides[d] < 0
     \/ \E d \in DOMAIN before2.strides : before2.strides[d] = 0 /\ before2.sizes[d] > 1
     \/ before2.tstride = 0 /\ before2.telems > 1
  /\ ~SameGeometry(before, before2)

ReorderOps == {"PermuteDimensions", "SwapDimensions", "Mirror"}

\* C3 as stated: StandardizeStrides of any view made by permute/swap, mirror
\* and crop of the normally strided `orig` gives orig's sizes, strides, origin.
C3_StandardizeRestoresOriginal ==
  (Last("StandardizeStrides") /\ used \subseteq (ReorderOps \cup {"Crop"}))
  => SameGeometry(img, orig)

\* the lowest address among the samples of an image
MinAddress(im) == CHOOSE a \in Addresses(im) : \A b \in Addresses(im) : a <= b

\* the dimensions of `im` are dimensions of `o`, in o's order, with o's strides
IsSubImage(im, o) ==
  \E k \in [DOMAIN im.sizes -> DOMAIN o.sizes] :
    /\ \A i, j \in DOMAIN im.sizes : i < j => k[i] < k[j]
    /\ \A i \in DOMAIN im.sizes : im.strides[i] = o.strides[k[i]] /\ im.sizes[i] <= o.sizes[k[i]]

\* C3 amended: StandardizeStrides of such a view addresses the same samples,
\* has its origin at the lowest address, and has the view's dimensions of
\* size > 1 in orig's order with orig's strides; without a Crop, and when
\* orig has no dimension of size 1, it has orig's sizes, strides, origin.
C3_StandardizeOfView ==
  (Last("StandardizeStrides") /\ used \subseteq (ReorderOps \cup {"Crop"}))
  => /\ Addresses(img) = Addresses(before)
     /\ img.origin = MinAddress(before)
     /\ \A i \in DOMAIN img.sizes : img.sizes[i] > 1
     /\ IsSubImage(img, orig)
     /\ ( (used \subseteq ReorderOps /\ \A d \in DOMAIN orig.sizes : orig.sizes[d] > 1)
          => SameGeometry(img, orig) )

\* a mirrored and reordered view of a 2-D image without singleton dimensions
\* was standardized
C3_Witness ==
  /\ Last("StandardizeStrides")
  /\ used \subseteq ReorderOps
  /\ "Mirror" \in used
  /\ used \cap {"PermuteDimensions", "SwapDimensions"} # {}
  /\ ALen(orig.sizes) = 2
  /\ \A d \in DOMAIN orig.sizes : orig.sizes[d] > 1
  /\ before.strides[0] > before.strides[1]
  /\ \E d \in DOMAIN before.strides : before.strides[d] < 0

\* the pixel of the view `v` at coordinates c is the pixel of `im` at c + o
IsWindowAt(v, im, o) ==
  /\ \A d \in DOMAIN o : o[d] + v.sizes[d] <= im.sizes[d]
  /\ \A c \in Coords(v) :
       Pointer(v, Offset(v, c)) = Pointer(im, Offset(im, [d \in DOMAIN c |-> c[d] + o[d]]))

WindowOrigins(v, im) ==
  {o \in [DOMAIN im.sizes -> 0..AMax(im.sizes, ALen(im.sizes))] : IsWindowAt(v, im, o)}

\* C4: along every dimension, with n the image size and m the window size
\* (1 <= m <= n), Crop with CENTER puts the pixel at index n div 2 at index
\* m div 2 of the view, and Crop with MIRROR_CENTER puts the pixel at index
\* (n-1) div 2 at index (m-1) div 2.
C4_CropKeepsCentre ==
  (Last("Crop") /\ hist[1].loc \in {"CENTER", "MIRROR_CENTER"})
  => /\ WindowOrigins(img, before) # {}
     /\ \A o \in WindowOrigins(img, before) : \A d \in DOMAIN o :
          LET n == before.sizes[d]
              m == img.sizes[d]
          IN  /\ 1 <= m /\ m <= n
              /\ hist[1].loc = "CENTER" => (n \div 2) - o[d] = m \div 2
              /\ hist[1].loc = "MIRROR_CENTER" => ((n - 1) \div 2) - o[d] = (m - 1) \div 2

\* a mirrored image of odd size was cropped to an even window with
\* MIRROR_CENTER, where the parity correction moves the window by one
C4_Witness ==
  /\ Last("Crop")
  /\ hist[1].loc = "MIRROR_CENTER"
  /\ \E d \in DOMAIN img.sizes :
       /\ before.sizes[d] = 3 /\ img.sizes[d] = 2
       /\ before.strides[d] < 0
       /\ Pointer(img, 0) = Pointer(before, before.strides[d])

\* the addresses of the pixels (their first sample) of an image
PixelAddresses(im) == {Pointer(im, Offset(im, c)) : c \in Coords(im)}

\* the coordinates of `im` that the view `v` of it selects
Window(v, im) == {c \in Coords(im) : Pointer(im, Offset(im, c)) \in PixelAddresses(v)}

\* a view was cropped, and padded back to its sizes with the same placement
CropThenPadBack ==
  /\ Last2("Crop", "Pad")
  /\ hist[1].arg = before2.sizes
  /\ hist[1].loc = hist[2].loc

\* C5: Pad(Crop(img, S, L), img.Sizes(), L) has, at every coordinate inside
\* the window that Crop selected, for each of the four placements L, exactly
\* the sample values img has at that coordinate.
C5_PadRestoresWindow ==
  CropThenPadBack
  => /\ img.sizes = before2.sizes
     /\ Cardinality(Window(before, before2)) = Cardinality(Coords(before))
     /\ \A c \in Window(before, before2), t \in 0..(before2.telems - 1) :
          Sample(mem, img, c, t) = Sample(mem, before2, c, t)

\* a mirrored image was cropped to a smaller window that does not start at
\* the first pixel, and padded back: outside the window is the fill value
C5_Witness ==
  /\ CropThenPadBack
  /\ hist[1].loc = "CENTER"
  /\ \E d \in DOMAIN before2.strides : before2.strides[d] < 0
  /\ before.origin # before2.origin
  /\ Window(before, before2) # Coords(before2)
  /\ \E c \in Coords(img) \ Window(before, before2) : Sample(mem, img, c, 0) = 0
  /\ \E c \in Window(before, before2) : Sample(mem, img, c, 0) # 0

\* C6: SplitComplex(dim) followed by MergeComplex(dim) on a forged complex
\* image restores the data type, sizes, strides, tensor stride and origin.
C6_SplitMergeComplex ==
  (Last2("SplitComplex", "MergeComplex") /\ hist[1].arg = hist[2].arg)
  => /\ SameGeometry(img, before2)
     /\ img.dt = before2.dt
     /\ img.tstride = before2.tstride

\* a mirrored or reordered 2-D tensor image was split at a dimension other than
\* the last and merged back
C6_Witness ==
  /\ Last2("SplitComplex", "MergeComplex")
  /\ hist[1].arg = hist[2].arg
  /\ hist[2].arg[0] < ALen(before2.sizes)
  /\ ALen(before2.sizes) = 2
  /\ before2.telems = 2
  /\ before2 # orig
  /\ before.tstride = 2
  /\ before.dt \in {"SFLOAT", "DFLOAT"}

(* ------------------------------------------------------------------ *)
(* Properties of Copy and Convert: `orig` is the source image of Copy  *)
(* and the other handle on the data; `before` is the destination, or   *)
(* the image converted, before the call.                               *)
(* ------------------------------------------------------------------ *)
CopyCalled == hist # <<>> /\ hist[1].op = "Copy"

\* a forged destination that is not an identical view of the source, and
\* whose sizes differ from the source's or whose samples overlap it
MustReforge(d) ==
  /\ IsForged(d)
  /\ ~IsIdenticalView(d, orig)
  /\ d.sizes # orig.sizes \/ IsOverlappingView(d, orig)

\* the destination got a new segment with the source's sizes, tensor elements
\* and data type; it shares no memory with the source, the source's samples
\* are unchanged, and the destination holds them at every coordinate
Reforged ==
  /\ hist[1].err = ""
  /\ img.seg \notin DOMAIN pmem
  /\ img.seg # orig.seg
  /\ ~IsOverlappingView(img, orig)
  /\ img.sizes = orig.sizes /\ img.telems = orig.telems /\ img.dt = orig.dt
  /\ mem[orig.seg] = pmem[orig.seg]
  /\ \A c \in Coords(orig), t \in 0..(orig.telems - 1) :
       Sample(mem, img, c, t) = Sample(mem, orig, c, t)

\* C8 as stated: Copy(src) on a forged destination that is not an identical
\* view of src, and whose sizes differ or whose samples overlap src's,
\* releases the destination's segment and forges a new one.
C8_CopyReforges ==
  (CopyCalled /\ MustReforge(before)) => Reforged

\* C8 amended: the same, for a destination that is not protected.
C8_CopyReforgesUnprotected ==
  (CopyCalled /\ MustReforge(before) /\ ~before.prot) => Reforged

\* the source was copied into a mirrored view of itself: same sizes, same
\* segment, overlapping samples
C8_Witness ==
  /\ CopyCalled
  /\ MustReforge(before)
  /\ ~before.prot
  /\ before.seg = orig.seg
  /\ before.sizes = orig.sizes
  /\ Cardinality(Coords(orig)) > 1
  /\ Reforged

\* Convert was called with a data type other than the image's
ConvertCalled == hist # <<>> /\ hist[1].op = "Convert" /\ hist[1].loc # before.dt

SameSampleSize == SizeOf(hist[1].loc) = SizeOf(before.dt)

\* a binary image converted to an 8-bit integer type: only the tag changes
TagOnly == before.dt = "BIN" /\ hist[1].loc \in {"UINT8", "SINT8"}

ConvertedInPlace ==
  /\ hist[1].err = ""
  /\ img.dt = hist[1].loc
  /\ img.seg = before.seg
  /\ img.origin = before.origin

ConvertedToNewSegment ==
  /\ hist[1].err = ""
  /\ img.dt = hist[1].loc
  /\ img.seg \notin DOMAIN pmem

\* C9 as stated: a conversion to a data type of equal sample size is made in
\* place (same segment and origin), also when the segment is shared; one to
\* a different sample size replaces the segment with a new one.
C9_ConvertInPlaceBySize ==
  ConvertCalled => IF SameSampleSize THEN ConvertedInPlace ELSE ConvertedToNewSegment

\* C9 amended: a conversion to equal sample size is made in place when the
\* segment is not shared (or only the tag changes); when the segment is
\* shared or the sample size differs, an unprotected image gets a new segment.
C9_ConvertInPlaceUnlessShared ==
  ConvertCalled
  => /\ (SameSampleSize /\ (TagOnly \/ ~IsShared(before, {orig}))) => ConvertedInPlace
     /\ (~TagOnly /\ ~before.prot /\ (~SameSampleSize \/ IsShared(before, {orig})))
          => ConvertedToNewSegment

\* a view that shares its segment with the source was converted to a type of
\* equal sample size, and got a segment of its own
C9_Witness ==
  /\ ConvertCalled
  /\ SameSampleSize
  /\ ~TagOnly
  /\ IsShared(before, {orig})
  /\ before # orig
  /\ ConvertedToNewSegment
  /\ mem[orig.seg] = pmem[orig.seg]

\* the last call was a ReinterpretCast that threw
CastFailed == Len(hist) >= 1 /\ hist[1].op = "ReinterpretCast" /\ hist[1].err # ""

\* C10: a ReinterpretCast that fails leaves the data type, dimensionality,
\* sizes, strides, tensor stride and origin exactly as they were.
C10_FailedCastChangesNothing ==
  CastFailed
  => /\ img.dt = before.dt
     /\ ALen(img.sizes) = ALen(before.sizes)
     /\ SameGeometry(img, before)
     /\ img.tstride = before.tstride

\* a cast to a larger sample failed on a stride, after the stride-1 dimension
\* was found and its size was found divisible
C10_Witness ==
  /\ CastFailed
  /\ SizeOf(hist[1].loc) > SizeOf(before.dt)
  /\ LET dim == FindUnitStrideDim(before, 0)
         ratio == SizeOf(hist[1].loc) \div SizeOf(before.dt)
     IN  /\ dim < ALen(before.sizes)
         /\ before.sizes[dim] % ratio = 0
         /\ \E ii \in DOMAIN before.strides : ii # dim /\ CMod(before.strides[ii], ratio) # 0

SingletonOps == {"AddSingleton", "ExpandDimensionality", "ExpandSingletonDimension",
                 "ExpandSingletonTensor", "UnexpandSingletonDimensions", "Squeeze"}

\* `orig` is a scalar image in which every dimension has size > 1
PlainScalar(o) == o.telems = 1 /\ \A d \in DOMAIN o.sizes : o.sizes[d] > 1

CastToLarger ==
  /\ Last("ReinterpretCast")
  /\ hist[1].loc # before.dt
  /\ SizeOf(hist[1].loc) > SizeOf(before.dt)

\* C11: a ReinterpretCast to a data type with larger samples succeeds only if
\* the image has a stride-1 dimension whose size is divisible by the byte-size
\* ratio and every stride the cast rescales (the strides of the other
\* dimensions, and the tensor stride of a tensor image) is divisible by the
\* ratio; after the cast every rescaled stride times the ratio is its old value.
C11_CastToLargerDivides ==
  CastToLarger
  => LET ratio == SizeOf(hist[1].loc) \div SizeOf(before.dt)
         dim == FindUnitStrideDim(before, 0)
     IN  /\ dim < ALen(before.sizes)
         /\ before.sizes[dim] % ratio = 0
         /\ \A ii \in DOMAIN before.strides :
              ii # dim => /\ CMod(before.strides[ii], ratio) = 0
                          /\ img.strides[ii] * ratio = before.strides[ii]
         /\ before.telems > 1 => /\ CMod(before.tstride, ratio) = 0
                                 /\ img.tstride * ratio = before.tstride

\* C12: CopyTo( src, dest, destMask ) fails with SIZES_DONT_MATCH whenever the
\* number of pixels of src differs from the number of set pixels of destMask,
\* and when it fails no sample of dest has been modified.
C12_CopyToMismatchFailsClean ==
  (CopiedTo /\ before.telems = orig.telems /\ NumberOfPixels(orig) # Count(mask, pmem))
  => /\ hist[1].err = "SIZES_DONT_MATCH"
     /\ mem[img.seg] = pmem[img.seg]

\* the first half of C12 alone: a mismatch of the counts is always reported
C12_CopyToMismatchFails ==
  (CopiedTo /\ before.telems = orig.telems)
  => (hist[1].err = "SIZES_DONT_MATCH" <=> NumberOfPixels(orig) # Count(mask, pmem))

(* ------------------------------------------------------------------ *)
(* Properties of the morphological filters                             *)
(* ------------------------------------------------------------------ *)
\* the non-zero pixels of an image
NonZero(im) == {p \in Points(im.sizes, NoBoundary) : im.pix[p] # 0}

\* the pixel is at least the extent of the kernel away from every border
FarFromBorder(im, p, kernel) ==
  LET extent == Boundary(kernel)
  IN  /\ p[1] >= extent[0] /\ p[1] <= im.sizes[0] - 1 - extent[0]
      /\ p[2] >= extent[1] /\ p[2] <= im.sizes[1] - 1 - extent[1]

\* the test image has one non-zero pixel, far from the border; it was dilated
\* with the element, the element was mirrored, and the result was eroded
DilatedThenEroded ==
  /\ calls = <<"DILATION", "Mirror", "EROSION">>
  /\ Cardinality(NonZero(pictureIn)) = 1
  /\ \A p \in NonZero(pictureIn) : FarFromBorder(pictureIn, p, se)

\* C13 as stated: dilating an image with a single non-zero pixel (at least
\* the kernel extent away from the border) with a flat structuring element
\* through the pixel-table filter, and eroding the result with the mirrored
\* element, yields an image in which only that pixel is non-zero, with its
\* value.
C13_DilationErosionRestoresPixel ==
  DilatedThenEroded
  => \A p \in Points(pictureIn.sizes, NoBoundary) : picture.pix[p] = pictureIn.pix[p]

\* the dilated pixels, too, are at least the kernel extent away from the
\* border, and the element contains its origin
DilatedFarFromBorder ==
  /\ \A p \in NonZero(pictureIn) :
       \A o \in KernelOffsets(se) : FarFromBorder(pictureIn, <<p[1] + o[1], p[2] + o[2]>>, se)
  /\ <<0, 0>> \in KernelOffsets(se)

\* C13, amended: the same, for a pixel whose dilation stays at least the
\* kernel extent away from the border and an element that contains its
\* origin: only that pixel is non-zero after the erosion, with its value.
C13_DilationErosionRestoresFarPixel ==
  (DilatedThenEroded /\ DilatedFarFromBorder)
  => \A p \in Points(pictureIn.sizes, NoBoundary) : picture.pix[p] = pictureIn.pix[p]

\* the case of an element that is not symmetric and is filtered with the
\* run-length method; the dilation had set as many pixels as the element has
C13_Witness ==
  /\ DilatedThenEroded
  /\ DilatedFarFromBorder
  /\ ~BruteForce(PixelTable(se))
  /\ KernelOffsets(se) # KernelOffsets(MirrorKernel(se))
  /\ Cardinality(NonZero(pictureBefore)) = Cardinality(se.pixels)
  /\ Cardinality(se.pixels) > 1

\* C14: Closing( Closing( X )) = Closing( X ) and Opening( Opening( X )) =
\* Opening( X ) for every binary image X and flat structuring element, at
\* every pixel of the image.
C14_ClosingOpeningIdempotent ==
  (pictureIn.dt = "BIN" /\ calls \in {<<"CLOSING", "CLOSING">>, <<"OPENING", "OPENING">>})
  => \A p \in Points(pictureIn.sizes, NoBoundary) : picture.pix[p] = pictureBefore.pix[p]

\* a closing that set a pixel from which the element reaches over the border
\* of the image, applied again
C14_Witness ==
  /\ pictureIn.dt = "BIN"
  /\ calls = <<"CLOSING", "CLOSING">>
  /\ \E p \in Points(pictureIn.sizes, NoBoundary) :
       /\ ~FarFromBorder(pictureIn, p, se)
       /\ pictureIn.pix[p] = 0
       /\ pictureBefore.pix[p] = 1

(* ------------------------------------------------------------------ *)
(* Properties of the parabolic line filter and its threads             *)
(* ------------------------------------------------------------------ *)
\* the extremum over all pixels j of the line of the parabola through line[j]
Exhaustive(line, i, sigma, dilation) ==
  LET vals == {Parabola(dilation, line[j], 4 \div (sigma * sigma), i - j) : j \in 1..Len(line)}
  IN  CHOOSE v \in vals : \A w \in vals : Dominates(dilation, v, w)

\* the line has the value h at pixel s and the value bg elsewhere
IsSpike(line, s, h, bg) ==
  /\ s \in 1..Len(line)
  /\ line[s] = h
  /\ h > bg
  /\ \A j \in 1..Len(line) : j # s => line[j] = bg

\* C15: every line that the two-pass parabolic filter has written holds at
\* each pixel i the maximum over all pixels j of the input line of
\* in[j] - (i-j)^2/sigma^2 (erosion: the minimum of in[j] + (i-j)^2/sigma^2);
\* the dilation of a single spike of height h is h - k^2/sigma^2 at offset k
\* wherever that exceeds the background
C15_ParabolicIsExhaustive ==
  \A l \in filtered :
    /\ \A i \in 1..Len(lineIn[l]) :
         lineOut[l][i] = Exhaustive(lineIn[l], i, filterParam.sigma, filterParam.dilation)
    /\ filterParam.dilation =>
         \A s \in 1..Len(lineIn[l]), h \in SampleValues, bg \in SampleValues :
           IsSpike(lineIn[l], s, h, bg) =>
             \A i \in 1..Len(lineIn[l]) :
               LET drop == ((i - s) * (i - s) * 4) \div (filterParam.sigma * filterParam.sigma)
               IN  h - drop > bg => lineOut[l][i] = h - drop

\* a line was filtered whose second pass had to search: a pixel of the output
\* takes its value from a pixel two places to its right and a pixel from
\* two places to its left
C15_Witness ==
  \E l \in filtered :
    /\ filterParam.dilation
    /\ \E i \in 1..Len(lineIn[l]) :
         /\ i + 2 <= Len(lineIn[l])
         /\ lineOut[l][i] > lineIn[l][i]
         /\ lineOut[l][i] > Parabola(TRUE, lineIn[l][i + 1], Lambda(filterParam.sigma), 1)
         /\ lineOut[l][i] = Parabola(TRUE, lineIn[l][i + 2], Lambda(filterParam.sigma), 2)
    /\ \E i \in 1..Len(lineIn[l]) :
         /\ i > 2
         /\ lineOut[l][i] > lineIn[l][i]
         /\ lineOut[l][i] > Parabola(TRUE, lineIn[l][i - 1], Lambda(filterParam.sigma), 1)
         /\ lineOut[l][i] = Parabola(TRUE, lineIn[l][i - 2], Lambda(filterParam.sigma), 2)


\* the output image of the filter run with one thread: the lines from l on
\* are filtered one after the other with the same buffer
RECURSIVE OneThread(_, _, _, _, _)
OneThread(lines, outs, l, buffer, param) ==
  IF l \notin DOMAIN lines THEN outs
  ELSE LET buf == FilterLeftToRight(lines[l], buffer, param.sigma, param.dilation)
           out == FilterRightToLeft(buf, outs[l], param.sigma, param.dilation)
       IN  OneThread(lines, [outs EXCEPT ![l] = out], l + 1, buf, param)

\* the output image before any line is filtered
BlankLines == [l \in DOMAIN lineIn |-> [k \in 1..Len(lineIn[l]) |-> 0]]

\* the threads whose Filter call takes a step
Stepping == {t \in Threads : work'[t] # work[t]}

\* C16: whatever lines the threads are handed and however their passes
\* interleave, every line that a Filter call has written is the line that
\* the run with one thread writes, and a step of a Filter call changes no
\* output line but its own and no buffer but the one of its thread
C16_ThreadsAgree ==
  [][/\ \A l \in filtered' : lineOut'[l] = OneThread(lineIn, BlankLines, 0, <<>>, filterParam)[l]
     /\ \A l \in DOMAIN lineOut :
          lineOut'[l] # lineOut[l] => \E t \in Stepping : work[t] = l
     /\ \A b \in Threads :
          buffers'[b] # buffers[b] => b \in Stepping]_vars

\* two threads have each filtered one of two lines of different lengths, and
\* the first line was changed by the filter
C16_Witness ==
  /\ filtered = DOMAIN lineIn
  /\ Len(lineIn[0]) # Len(lineIn[1])
  /\ \A t \in Threads : Len(buffers[t]) = Len(lineIn[t])
  /\ Cardinality(Threads) = 2
  /\ lineOut[0] # lineIn[0]


(* ------------------------------------------------------------------ *)
(* Properties of the dispatch on the shape of the structuring element  *)
(* ------------------------------------------------------------------ *)
\* the structuring element has the size s (in pixels) in every dimension
IsotropicOfSize(s) == \A d \in DOMAIN seParams : seParams[d] = s * 4

Is2D == ALen(seParams) = 2

Anisotropic == \E d, e \in DOMAIN seParams : seParams[d] # seParams[e]

\* the filters called are iterations of the elemental diamond only
ByElementalDiamond ==
  /\ Len(route) = 1
  /\ route[1].filter = "Elemental2DDiamondMorphology"
  /\ route[1].reps >= 1

ByFilter(filter) == Len(route) = 1 /\ route[1].filter = filter

Extended ==
  IF seShape = "diamond"
  THEN {d \in DOMAIN seParams : seParams[d] >= 2 * 4}
  ELSE {d \in DOMAIN seParams : seParams[d] > 2 * 4}

\* the extended dimensions have the same size (a diamond: the same size
\* after rounding down to an odd number)
ExtendedIsotropic ==
  \A d, e \in Extended :
    IF seShape = "diamond" THEN OddSize(seParams[d]) = OddSize(seParams[e])
    ELSE seParams[d] = seParams[e]

\* the size of the extended dimensions of an isotropic element, in quarters
ExtendedSize == seParams[CHOOSE d \in Extended : TRUE]

Consumed(code) ==
  IF code % 2 = 0 THEN <<code \div 2>> ELSE <<code \div 2, (code \div 2 + 1) % 4>>

RECURSIVE AllConsumed(_)
AllConsumed(codes) ==
  IF codes = <<>> THEN <<>> ELSE Consumed(Head(codes).code) \o AllConsumed(Tail(codes))

RECURSIVE SumOfSteps(_, _)
SumOfSteps(codes, deltas) ==
  IF codes = <<>> THEN <<0, 0>>
  ELSE Plus(deltas[Head(codes).code + 1], SumOfSteps(Tail(codes), deltas))

Directions(codes) == [k \in 1..Len(codes) |-> codes[k].code]

\* C18: the codes of the converted chain stand for the codes of the input,
\* each once and in order, from the first code on or, with the start moved
\* back by the last step, from the last code on; the steps of the output
\* and of the input have the same sum
C18_ConvertConsumesEachOnce ==
  converted # <<>> =>
    LET in == Directions(chain.codes)
        n  == Len(in)
    IN  /\ \/ /\ converted.start = chain.start
              /\ AllConsumed(converted.codes) = in
           \/ /\ n > 0
              /\ converted.start = Minus(chain.start, deltas4[in[n] + 1])
              /\ AllConsumed(converted.codes) = <<in[n]>> \o SubSeq(in, 1, n - 1)
        /\ SumOfSteps(converted.codes, deltas8) = SumOfSteps(chain.codes, deltas4)

NoDiagonalContact ==
  \A p \in object, q \in object :
    (p[1] - q[1]) * (p[1] - q[1]) = 1 /\ (p[2] - q[2]) * (p[2] - q[2]) = 1
      => <<p[1], q[2]>> \in object \/ <<q[1], p[2]>> \in object

Holders == {d \in Dfts : dfts[d].plan_ # 0}

\* C20: in every step a plan with a use count above zero that a DFT object
\* still holds after the step stays in the cache, at its address, and every
\* plan address that a DFT object holds between Initialize and Destroy is
\* the address of the plan that the cache has for the object's length, with
\* a use count above zero
C20_PlansInUseStay ==
  [][/\ \A len \in DOMAIN cache :
          cache[len].use_count > 0 /\ (\E d \in Holders' : dfts'[d].nfft_ = len)
            => len \in DOMAIN cache' /\ cache'[len].plan = cache[len].plan
     /\ \A d \in Holders' :
          /\ dfts'[d].nfft_ \in DOMAIN cache'
          /\ cache'[dfts'[d].nfft_].plan = dfts'[d].plan_
          /\ cache'[dfts'[d].nfft_].use_count > 0]_vars

\* a request has deleted a plan that was not in use, although a plan in use
\* had been accessed earlier, and the object that holds that plan still
\* holds it
C20_Witness ==
  /\ spared
  /\ \E d \in Holders : cache[dfts[d].nfft_].use_count = 1
  /\ Cardinality(DOMAIN cache) >= maxSize


\* the DFT objects whose Initialize call the step is: they hold a plan after
\* the step, and the step changed them or the use count of their plan
Initializing ==
  {d \in Dfts : dfts'[d].plan_ # 0 /\ access_counter' # access_counter
                /\ \A e \in Dfts \ {d} : dfts'[e] = dfts[e]
                /\ (dfts'[d] # dfts[d] \/ dfts[d].plan_ # 0)}

\* the plans of the cache that are not in use
Unused(entries) == {len \in DOMAIN entries : entries[len].use_count = 0}

\* C21: when the plan of a length that is not in the cache is requested
\* while the cache holds maxSize plans or more and one of them is not in
\* use, the request deletes exactly one plan, a plan not in use that no
\* other plan not in use was accessed before, and inserts the new one
C21_EvictsOldestUnused ==
  [][\A d \in Initializing :
       LET seen == Destroyed(d)
           size == dfts'[d].nfft_
       IN  /\ size \notin DOMAIN seen
           /\ Cardinality(DOMAIN seen) >= maxSize
           /\ Unused(seen) # {}
           => \E victim \in Unused(seen) :
                /\ \A other \in Unused(seen) : seen[victim].last_access <= seen[other].last_access
                /\ DOMAIN cache' = (DOMAIN seen \ {victim}) \cup {size}]_vars


\* the number of DFT objects that hold the plan of a length
HolderCount(length) == Cardinality({d \in Dfts : dfts[d].plan_ # 0 /\ dfts[d].nfft_ = length})

\* C26: the use count of every cached plan is the number of objects that hold
\* the plan of that length, which is never negative, every held plan is in
\* the cache, and a release of a length that is not in the cache or has use
\* count zero leaves the cache as it is
C26_UseCountIsHolders ==
  /\ \A len \in DOMAIN cache : cache[len].use_count = HolderCount(len) /\ cache[len].use_count >= 0
  /\ \A d \in Dfts : dfts[d].plan_ # 0 => dfts[d].nfft_ \in DOMAIN cache
  /\ \A len \in Lengths :
       (len \notin DOMAIN cache \/ cache[len].use_count = 0) => PlanCacheFree(cache, len) = cache

\* two objects hold the plan of one length while another cached plan is not in use
C26_Witness ==
  /\ \E len \in DOMAIN cache : cache[len].use_count = 2 /\ HolderCount(len) = 2
  /\ \E len \in DOMAIN cache : cache[len].use_count = 0 /\ PlanCacheFree(cache, len) = cache
  /\ \E len \in Lengths : len \notin DOMAIN cache


(* ------------------------------------------------------------------ *)
(* Properties of Crop requests                                         *)
(* ------------------------------------------------------------------ *)
\* the last call was Crop with sizes that exceed the image's in a dimension
CropTooLarge ==
  /\ hist # <<>> /\ hist[1].op = "Crop"
  /\ \E i \in DOMAIN before.sizes : hist[1].arg[i] > before.sizes[i]

\* C27: a Crop that returns without error leaves a window inside the image
\* it was applied to, origin[i] + sizes[i] <= the previous size in every
\* dimension, for each placement, and addresses no sample outside that image;
\* a request with a size above the image's in some dimension fails with
\* INDEX_OUT_OF_RANGE and leaves the image as it was
C27_CropStaysInside ==
  hist # <<>> /\ hist[1].op = "Crop"
  => /\ hist[1].err = ""
        => /\ \A i \in DOMAIN before.sizes :
                GetWindowOrigin(before.sizes, hist[1].arg, hist[1].loc)[i] + hist[1].arg[i]
                  <= before.sizes[i]
           /\ PixelAddresses(img) \subseteq PixelAddresses(before)
     /\ CropTooLarge => hist[1].err = "INDEX_OUT_OF_RANGE" /\ img = before


(* ------------------------------------------------------------------ *)
(* Properties of MergeComplex's stride loop                            *)
(* ------------------------------------------------------------------ *)
\* C29: every index at which a successful MergeComplex halves an element of
\* the strides array is below the number of dimensions that the image has
\* after the merged dimension was erased
C29_MergeComplexIndicesInRange ==
  Last("MergeComplex")
  => \A ii \in MergeComplexIndices(ALen(before.sizes)) : ii < ALen(img.strides)


(* ------------------------------------------------------------------ *)
(* Properties of Rotation90                                            *)
(* ------------------------------------------------------------------ *)
\* Rotation90( 1, d1, d2 ) applied k times
RECURSIVE QuarterTurns(_, _, _, _)
QuarterTurns(im, k, d1, d2) ==
  IF k = 0 THEN im ELSE QuarterTurns(Rotation90(im, 1, d1, d2).img, k - 1, d1, d2)

\* C23: Rotation90(n, d1, d2) with distinct valid dimensions leaves the
\* sizes, strides and origin that (n mod 4) applications of
\* Rotation90(1, d1, d2) leave, for negative n too, with n mod 4 in 0..3, and
\* four quarter turns of any view restore its sizes, strides and origin
C23_RotationIsQuarterTurns ==
  /\ Last("Rotation90")
     => img = QuarterTurns(before, hist[1].arg[0] % 4, hist[1].arg[1], hist[1].arg[2])
  /\ \A d1, d2 \in DOMAIN img.sizes :
       d1 # d2 => QuarterTurns(img, 4, d1, d2) = img

\* a view that is not symmetric was turned by a negative number of quarter
\* turns that is not a multiple of 4, in a plane of two different sizes
C23_Witness ==
  /\ Last("Rotation90")
  /\ hist[1].arg[0] < 0 /\ hist[1].arg[0] % 4 = 1
  /\ before.sizes[hist[1].arg[1]] # before.sizes[hist[1].arg[2]]
  /\ ALen(before.sizes) = 3
  /\ img # before
  /\ img = QuarterTurns(before, 1, hist[1].arg[1], hist[1].arg[2])


(* ------------------------------------------------------------------ *)
(* Properties of SwapBytesInSample                                     *)
(* ------------------------------------------------------------------ *)
\* C22: SwapBytesInSample on a forged image with samples of more than one
\* byte, of any data type, strides and tensor shape, succeeds, leaves in
\* every sample the bytes it held in reverse order and changes no other
\* byte of the segment, and a second call restores all bytes
C22_SwapReversesEachSample ==
  hist # <<>> /\ hist[1].op = "SwapBytesInSample" /\ SizeOf(before.dt) > 1
  => /\ hist[1].err = ""
     /\ img = before
     /\ \A a \in Addresses(before), k \in 0..(SizeOf(before.dt) - 1) :
          mem[img.seg][a + k] = pmem[img.seg][a + (SizeOf(before.dt) - 1 - k)]
     /\ \A b \in DOMAIN mem[img.seg] :
          (\A a \in Addresses(before) : b < a \/ b >= a + SizeOf(before.dt))
            => mem[img.seg][b] = pmem[img.seg][b]
     /\ SwapBytesInSample(img, mem).mem = pmem


(* ------------------------------------------------------------------ *)
(* Properties of the copy from a view with a mask                      *)
(* ------------------------------------------------------------------ *)
\* C28: after Image::Copy from a view with a mask the destination's
\* protection flag is what it was before the call, whether the copy
\* succeeded or failed
C28_CopyViewKeepsProtection ==
  CopiedView => img.prot = before.prot


(* ------------------------------------------------------------------ *)
(* Properties of the two methods of the flat line filter               *)
(* ------------------------------------------------------------------ *)
\* C24: for every pixel table and every input line the run-length method of
\* the flat line filter (which keeps the extremum and its position in its
\* run, and looks only at the pixel entering each run while the extremum is
\* in the filter) writes the output line that the brute-force method writes,
\* so the choice made from the average run length does not change the output
C24_RunLengthIsBruteForce ==
  calls # <<>> /\ calls[1] \in {"DILATION", "EROSION"} /\ DOMAIN picture = {"runLength", "bruteForce"}
  => picture.runLength = picture.bruteForce

\* a table of two runs of different lengths that the filter handles with the
\* run-length method; the extremum of the first pixel leaves the filter at
\* the second pixel, and a larger value enters it at the third
C24_Witness ==
  /\ calls = <<"DILATION">>
  /\ ~BruteForce(PixelTable(se))
  /\ Len(PixelTable(se).runs) = 2
  /\ PixelTable(se).runs[1].length # PixelTable(se).runs[2].length
  /\ picture.runLength = picture.bruteForce
  /\ picture.runLength[1] > picture.runLength[2]
  /\ picture.runLength[2] < picture.runLength[3]


(* ------------------------------------------------------------------ *)
(* Properties of the GreySize feature                                  *)
(* ------------------------------------------------------------------ *)
\* the slots of data_ that hold the accumulators of an object
FeatureSlots(objectIndex) ==
  {FeatureSlot(objectIndex) + ii : ii \in 0..(nTensor_ - 1)}

\* C25: after any ScanLine calls Finish(objectIndex) reports, for every
\* channel c, the sum of grey channel c over the scanned pixels whose label
\* maps to objectIndex, times the pixel-area scale, and the accumulators of
\* different objects are in disjoint slots of data_
C25_GreySizeIsSumPerObject ==
  scanned # <<>> /\ scanned.lines > 0
  => /\ \A idx \in DOMAIN scanned.sums, c \in 0..(nTensor_ - 1) :
          Finish(data_, nTensor_, scale_, idx)[c] = scanned.sums[idx][c] * scale_
     /\ \A idx, other \in DOMAIN scanned.sums :
          idx # other => FeatureSlots(idx) \cap FeatureSlots(other) = {}

\* the pixel and those of its four neighbours along dim1_ and dim2_ that
\* lie inside the image
DiamondNeighbourhood(im, f, p) ==
  {q \in DOMAIN im.pix :
     \/ q = p
     \/ \E d \in {f.dim1_, f.dim2_}, delta \in {-1, 1} : q = [p EXCEPT ![d] = @ + delta]}

DiamondValue(im, f, p) ==
  LET vs == {im.pix[q] : q \in DiamondNeighbourhood(im, f, p)}
  IN  IF f.dilation_ THEN CHOOSE v \in vs : \A w \in vs : w <= v
      ELSE CHOOSE v \in vs : \A w \in vs : v <= w

\* C30: on every line of every image, sizes of 1 included, a call of the
\* elemental diamond line filter reads only samples inside the image, writes
\* exactly the pixels of the line, each once, and writes to each the maximum
\* (dilation) or minimum (erosion) over the pixel and its neighbours inside
\* the image.
C30_DiamondLineStaysInside ==
  picture # <<>> =>
    /\ picture.reads \subseteq DOMAIN pictureIn.pix
    /\ Len(picture.writes) = pictureBefore.bufferLength
    /\ \A k \in 1..Len(picture.writes) :
         /\ picture.writes[k].at =
              [pictureBefore.position EXCEPT ![pictureBefore.dimension] = k - 1]
         /\ picture.writes[k].at \in DOMAIN pictureIn.pix
         /\ picture.writes[k].val =
              DiamondValue(pictureIn, se.lineFilter, picture.writes[k].at)

\* the same for the images that have at least two samples along both
\* filtered dimensions and along the processing dimension
C30_HoldsFromSizeTwo ==
  (/\ picture # <<>>
   /\ se.lineFilter.size1_ >= 2 /\ se.lineFilter.size2_ >= 2
   /\ pictureBefore.bufferLength >= 2)
  => C30_DiamondLineStaysInside

====
